---- MODULE Spec2Model ----
(***************************************************************************)
(* Colour palette tool: ColorUtility (colour space conversions),           *)
(* AccessibilityChecker (WCAG contrast) and PaletteGenerator (generate).   *)
(*                                                                         *)
(* Numbers.  The JavaScript computes in IEEE-754 doubles.  Here every      *)
(* quantity is an exact rational kept as integer numerator over a fixed    *)
(* denominator.  An exact value and its double differ by far less than     *)
(* the distance between two non-tie roundings, so Math.round agrees on     *)
(* both except where the exact value is k + 1/2: there the double can sit  *)
(* one ulp below and Math.round gives k.  DoubleBelowTie and               *)
(* HueDoubleBelowTie list those arguments, for the arguments generate()    *)
(* passes to hslToRgb and rgbToHsl on every seed hue, for the triples of   *)
(* RgbInputs and for the colours and amounts of AdjustInputs.              *)
(***************************************************************************)
EXTENDS Integers, Sequences, FiniteSets, TLC

(***************************************************************************)
(* Bounds of the model.                                                    *)
(***************************************************************************)
MaxPurposeLen == 6
NumSwatches == 3
NumLevels == 3
NumChannels == 5
MaxFormPurposeLen == 2
MaxEvents == 3
NumNameChars == 3
MaxNameLen == 2
NumAdjustHexes == 4
NumDeltas == 7
NumHexChars == 3

(***************************************************************************)
(* JavaScript values that are not numbers or strings.                      *)
(***************************************************************************)
\* the IEEE NaN; every real hue, channel and percentage is >= 0
NaN == 0 - 1

Max2(a, b) == IF a >= b THEN a ELSE b
Min2(a, b) == IF a <= b THEN a ELSE b
Max3(a, b, c) == Max2(a, Max2(b, c))
Min3(a, b, c) == Min2(a, Min2(b, c))

\* Math.round of the exact rational n / d (d > 0): rounds half up
MathRound(n, d) == (2 * n + d) \div (2 * d)
\* n / d is exactly k + 1/2
IsTie(n, d) == (2 * n + d) % (2 * d) = 0

(***************************************************************************)
(* ColorUtility: HEX <-> RGB.  A hex string is a sequence of characters.   *)
(***************************************************************************)
LowerDigits == <<"0", "1", "2", "3", "4", "5", "6", "7", "8", "9",
                 "a", "b", "c", "d", "e", "f">>
Range(f) == {f[i] : i \in DOMAIN f}

\* the characters String.prototype.toUpperCase changes, with their images
UpperCaseOf ==
    ("a" :> "A") @@ ("b" :> "B") @@ ("c" :> "C") @@ ("d" :> "D") @@ ("e" :> "E") @@ ("f" :> "F") @@
    ("g" :> "G") @@ ("h" :> "H") @@ ("i" :> "I") @@ ("j" :> "J") @@ ("k" :> "K") @@ ("l" :> "L") @@
    ("m" :> "M") @@ ("n" :> "N") @@ ("o" :> "O") @@ ("p" :> "P") @@ ("q" :> "Q") @@ ("r" :> "R") @@
    ("s" :> "S") @@ ("t" :> "T") @@ ("u" :> "U") @@ ("v" :> "V") @@ ("w" :> "W") @@ ("x" :> "X") @@
    ("y" :> "Y") @@ ("z" :> "Z")

LowerCaseChars == DOMAIN UpperCaseOf

toUpperCaseChar(c) == IF c \in LowerCaseChars THEN UpperCaseOf[c] ELSE c

RECURSIVE toUpperCase(_)
toUpperCase(str) ==
    IF Len(str) = 0 THEN <<>>
    ELSE <<toUpperCaseChar(Head(str))>> \o toUpperCase(Tail(str))

\* the digits parseInt accepts in radix 16, with their values
HexDigitValue ==
    ("0" :> 0) @@ ("1" :> 1) @@ ("2" :> 2) @@ ("3" :> 3) @@ ("4" :> 4) @@ ("5" :> 5) @@ ("6" :> 6) @@ ("7" :> 7) @@
    ("8" :> 8) @@ ("9" :> 9) @@ ("a" :> 10) @@ ("b" :> 11) @@ ("c" :> 12) @@ ("d" :> 13) @@ ("e" :> 14) @@ ("f" :> 15) @@
    ("A" :> 10) @@ ("B" :> 11) @@ ("C" :> 12) @@ ("D" :> 13) @@ ("E" :> 14) @@ ("F" :> 15)

\* value of one hexadecimal digit, NaN when the character is no digit
HexDigitChars == DOMAIN HexDigitValue

digitValue(c) == IF c \in HexDigitChars THEN HexDigitValue[c] ELSE NaN

\* parseInt(str, 16) on a substring of at most two characters
parseInt16(str) ==
    LET first == digitValue(str[1])
        second == digitValue(str[2])
    IN  IF Len(str) = 0 \/ first = NaN THEN NaN
        ELSE IF Len(str) = 1 \/ second = NaN THEN first
        ELSE 16 * first + second

\* String.prototype.substring(from, to) with 0-based bounds
substring(str, from, to) ==
    SubSeq(str, Min2(from, Len(str)) + 1, Min2(to, Len(str)))

\* hex.replace(/^#/, '')
stripHash(hex) == IF Len(hex) > 0 /\ hex[1] = "#" THEN Tail(hex) ELSE hex

hexToRgb(hex) ==
    LET cleanHex == stripHash(hex)
    IN  [r |-> parseInt16(substring(cleanHex, 0, 2)),
         g |-> parseInt16(substring(cleanHex, 2, 4)),
         b |-> parseInt16(substring(cleanHex, 4, 6))]

\* Number.prototype.toString(16) of a non-negative integer
RECURSIVE toString16(_)
toString16(n) ==
    IF n < 16 THEN <<LowerDigits[n + 1]>>
    ELSE toString16(n \div 16) \o <<LowerDigits[(n % 16) + 1]>>

\* str.padStart(2, '0')
padStart2(str) == IF Len(str) < 2 THEN <<"0">> \o str ELSE str

\* toHex without the padStart(2, '0')
toHexUnpadded(value) == toString16(value)

toHex(value) == padStart2(toString16(value))

\* rgbToHex without the toUpperCase()
rgbToHexLowerCase(r, g, b) == <<"#">> \o toHex(r) \o toHex(g) \o toHex(b)

rgbToHex(r, g, b) == toUpperCase(<<"#">> \o toHex(r) \o toHex(g) \o toHex(b))

(***************************************************************************)
(* ColorUtility: RGB <-> HSL.                                              *)
(***************************************************************************)
\* rgb triples whose hue is exactly k + 1/2 and whose double hue is below it
HueDoubleBelowTie == {<<42, 43, 50>>, <<42, 47, 50>>, <<42, 49, 50>>, <<43, 50, 42>>, <<45, 50, 42>>, <<47, 50, 42>>, <<49, 50, 42>>}

\* rgbToHsl with delta / (max + min) for the saturation whatever the lightness
rgbToHslOneDivisor(r, g, b) ==
    LET max == Max3(r, g, b)
        min == Min3(r, g, b)
        delta == max - min
        l == MathRound((max + min) * 100, 510)
        s == MathRound(delta * 100, max + min)
        hNum == IF max = r THEN 60 * (g - b) + (IF g < b THEN 360 * delta ELSE 0)
                ELSE IF max = g THEN 60 * (b - r) + 120 * delta
                ELSE 60 * (r - g) + 240 * delta
        h == MathRound(hNum, delta)
    IN  IF delta = 0 THEN [h |-> 0, s |-> 0, l |-> l]
        ELSE [h |-> h, s |-> s, l |-> l]

rgbToHsl(r, g, b) ==
    LET max == Max3(r, g, b)
        min == Min3(r, g, b)
        delta == max - min
        \* l = (max + min) / 2 with channels over 255, times 100
        l == MathRound((max + min) * 100, 510)
        \* s = l > 0.5 ? delta / (2 - max - min) : delta / (max + min)
        sDen == IF max + min > 255 THEN 510 - max - min ELSE max + min
        s == MathRound(delta * 100, sDen)
        \* h * 360, as a numerator over delta; switch (max) tries r, g, b in turn
        hNum == IF max = r THEN 60 * (g - b) + (IF g < b THEN 360 * delta ELSE 0)
                ELSE IF max = g THEN 60 * (b - r) + 120 * delta
                ELSE 60 * (r - g) + 240 * delta
        h == IF IsTie(hNum, delta) /\ <<r, g, b>> \in HueDoubleBelowTie
             THEN MathRound(hNum, delta) - 1
             ELSE MathRound(hNum, delta)
    IN  IF delta = 0 THEN [h |-> 0, s |-> 0, l |-> l]
        ELSE [h |-> h, s |-> s, l |-> l]

\* hslToRgb arguments <<h, s, l, channel>> whose channel times 255 is exactly
\* k + 1/2 and whose double product is below it
DoubleBelowTie == {
    <<210, 58, 50, "g">>, <<270, 58, 50, "r">>, <<210, 65, 50, "g">>, <<270, 65, 50, "r">>,
    <<55, 70, 60, "g">>, <<65, 70, 60, "r">>, <<175, 70, 60, "b">>, <<185, 70, 60, "g">>,
    <<235, 70, 60, "g">>, <<245, 70, 60, "r">>, <<295, 70, 60, "r">>, <<305, 70, 60, "b">>,
    <<355, 70, 60, "b">>, <<315, 75, 52, "b">>, <<60, 80, 50, "r">>, <<70, 80, 50, "r">>,
    <<80, 80, 50, "r">>, <<95, 80, 50, "r">>, <<100, 80, 50, "r">>, <<105, 80, 50, "r">>,
    <<180, 80, 50, "g">>, <<190, 80, 50, "g">>, <<200, 80, 50, "g">>, <<210, 80, 50, "g">>,
    <<215, 80, 50, "g">>, <<220, 80, 50, "g">>, <<225, 80, 50, "g">>, <<235, 80, 50, "g">>,
    <<245, 80, 50, "r">>, <<250, 80, 50, "r">>, <<265, 80, 50, "r">>, <<270, 80, 50, "r">>,
    <<275, 80, 50, "r">>, <<290, 80, 50, "r">>, <<295, 80, 50, "r">>, <<300, 80, 50, "b">>,
    <<310, 80, 50, "b">>, <<315, 80, 50, "b">>, <<320, 80, 50, "b">>, <<335, 80, 50, "b">>,
    <<340, 80, 50, "b">>, <<345, 80, 50, "b">>, <<355, 80, 50, "b">>,
    \* fully saturated colours met on the way back from rgbToHsl
    <<0, 100, 95, "b">>, <<0, 100, 95, "g">>, <<4, 100, 95, "b">>, <<54, 100, 50, "g">>,
    <<60, 100, 5, "r">>, <<60, 100, 45, "r">>, <<60, 100, 95, "b">>, <<116, 100, 95, "b">>,
    <<120, 100, 95, "b">>, <<120, 100, 95, "r">>, <<124, 100, 95, "r">>, <<180, 100, 5, "g">>,
    <<180, 100, 45, "g">>, <<180, 100, 95, "r">>, <<186, 100, 50, "g">>, <<236, 100, 95, "r">>,
    <<240, 100, 95, "g">>, <<240, 100, 95, "r">>, <<244, 100, 95, "g">>, <<294, 100, 50, "r">>,
    <<300, 100, 5, "b">>, <<300, 100, 45, "b">>, <<300, 100, 95, "g">>, <<356, 100, 95, "g">>,
    \* colours of AdjustHexes after a shift of the hue
    <<70, 60, 50, "r">>, <<190, 60, 50, "g">>, <<250, 60, 50, "r">>, <<210, 100, 50, "g">>}

\* hue2rgb(p, q, t) times 60, with p and q in 1/10000 and t in degrees
hue2rgb(p, q, t) ==
    LET t1 == IF t < 0 THEN t + 360 ELSE t
        t2 == IF t1 > 360 THEN t1 - 360 ELSE t1
    IN  IF t = NaN THEN p * 60
        ELSE IF t2 < 60 THEN p * 60 + (q - p) * t2
        ELSE IF t2 < 180 THEN q * 60
        ELSE IF t2 < 240 THEN p * 60 + (q - p) * (240 - t2)
        ELSE p * 60

\* Math.round(channel * 255) for channel = num / 600000
roundChannel(num, h, s, l, c) ==
    IF IsTie(num * 255, 600000)
       /\ (\/ <<h, s, l, c>> \in DoubleBelowTie
           \* for s = 80, l = 50 the double of p is 0.09999999999999998
           \/ s = 80 /\ l = 50 /\ num = (200 * l - (100 * l + 100 * s - l * s)) * 60)
    THEN MathRound(num * 255, 600000) - 1
    ELSE MathRound(num * 255, 600000)

hslToRgb(h, s, l) ==
    LET q == IF l < 50 THEN l * (100 + s) ELSE 100 * l + 100 * s - l * s
        p == 200 * l - q
        tr == IF h = NaN THEN NaN ELSE h + 120
        tb == IF h = NaN THEN NaN ELSE h - 120
    IN  IF s = 0
        THEN [r |-> MathRound(l * 255, 100), g |-> MathRound(l * 255, 100),
              b |-> MathRound(l * 255, 100)]
        ELSE [r |-> roundChannel(hue2rgb(p, q, tr), h, s, l, "r"),
              g |-> roundChannel(hue2rgb(p, q, h), h, s, l, "g"),
              b |-> roundChannel(hue2rgb(p, q, tb), h, s, l, "b")]

\* a % n in JavaScript for integers: the sign of the dividend
remainder(a, n) == IF a >= 0 THEN a % n ELSE 0 - ((0 - a) % n)

\* adjustedHue without the correction of a negative remainder
adjustedHueUnwrapped(h, degrees) == remainder(h + degrees, 360)

\* hsl.h = (hsl.h + degrees) % 360; if (hsl.h < 0) hsl.h += 360
adjustedHue(h, degrees) ==
    LET rem == remainder(h + degrees, 360)
    IN  IF rem < 0 THEN rem + 360 ELSE rem

\* Math.max(0, Math.min(100, channel + amount))
adjustedChannel(channel, amount) == Max2(0, Min2(100, channel + amount))

adjustHue(hex, degrees) ==
    LET rgb == hexToRgb(hex)
        hsl == rgbToHsl(rgb.r, rgb.g, rgb.b)
        newRgb == hslToRgb(adjustedHue(hsl.h, degrees), hsl.s, hsl.l)
    IN  rgbToHex(newRgb.r, newRgb.g, newRgb.b)

adjustSaturation(hex, amount) ==
    LET rgb == hexToRgb(hex)
        hsl == rgbToHsl(rgb.r, rgb.g, rgb.b)
        newRgb == hslToRgb(hsl.h, adjustedChannel(hsl.s, amount), hsl.l)
    IN  rgbToHex(newRgb.r, newRgb.g, newRgb.b)

adjustLightness(hex, amount) ==
    LET rgb == hexToRgb(hex)
        hsl == rgbToHsl(rgb.r, rgb.g, rgb.b)
        newRgb == hslToRgb(hsl.h, hsl.s, adjustedChannel(hsl.l, amount))
    IN  rgbToHex(newRgb.r, newRgb.g, newRgb.b)

(***************************************************************************)
(* AccessibilityChecker.                                                   *)
(***************************************************************************)
\* linearize(c / 255) for c = 0..255, in units of 10^-8
LinearTable == <<
    0, 30353, 60705, 91058, 121411, 151763, 182116, 212469,
    242822, 273174, 303527, 334654, 367651, 402472, 439144, 477695,
    518152, 560539, 604883, 651209, 699541, 749903, 802319, 856813,
    913406, 972122, 1032982, 1096009, 1161225, 1228649, 1298303, 1370208,
    1444384, 1520851, 1599629, 1680738, 1764195, 1850022, 1938236, 2028856,
    2121901, 2217388, 2315337, 2415763, 2518686, 2624122, 2732089, 2842604,
    2955683, 3071344, 3189603, 3310477, 3433981, 3560131, 3688945, 3820437,
    3954624, 4091520, 4231141, 4373503, 4518620, 4666509, 4817182, 4970657,
    5126946, 5286065, 5448028, 5612849, 5780543, 5951124, 6124605, 6301002,
    6480327, 6662594, 6847817, 7036010, 7227185, 7421357, 7618538, 7818742,
    8021982, 8228271, 8437621, 8650046, 8865559, 9084171, 9305896, 9530747,
    9758735, 9989873, 10224173, 10461648, 10702310, 10946171, 11193243, 11443537,
    11697067, 11953843, 12213877, 12477182, 12743768, 13013648, 13286832, 13563333,
    13843162, 14126329, 14412847, 14702727, 14995979, 15292615, 15592646, 15896084,
    16202938, 16513219, 16826940, 17144110, 17464740, 17788842, 18116424, 18447499,
    18782077, 19120168, 19461783, 19806932, 20155625, 20507874, 20863687, 21223076,
    21586050, 21952620, 22322796, 22696587, 23074005, 23455058, 23839757, 24228112,
    24620133, 25015828, 25415209, 25818285, 26225066, 26635560, 27049779, 27467731,
    27889426, 28314874, 28744084, 29177065, 29613827, 30054379, 30498731, 30946892,
    31398871, 31854678, 32314321, 32777810, 33245154, 33716362, 34191442, 34670406,
    35153260, 35640014, 36130678, 36625260, 37123768, 37626212, 38132601, 38642943,
    39157248, 39675523, 40197778, 40724021, 41254261, 41788507, 42326767, 42869050,
    43415364, 43965717, 44520119, 45078578, 45641102, 46207700, 46778380, 47353150,
    47932018, 48514994, 49102085, 49693300, 50288646, 50888132, 51491767, 52099557,
    52711513, 53327640, 53947949, 54572446, 55201140, 55834039, 56471151, 57112483,
    57758044, 58407842, 59061884, 59720179, 60382734, 61049557, 61720656, 62396039,
    63075714, 63759687, 64447968, 65140564, 65837482, 66538730, 67244316, 67954247,
    68668531, 69387176, 70110189, 70837578, 71569350, 72305513, 73046074, 73791041,
    74540421, 75294222, 76052450, 76815115, 77582222, 78353779, 79129794, 79910274,
    80695226, 81484657, 82278575, 83076988, 83879901, 84687323, 85499261, 86315721,
    87136712, 87962240, 88792312, 89626935, 90466117, 91309865, 92158186, 93011086,
    93868573, 94730654, 95597335, 96468625, 97344529, 98225055, 99110210, 100000000>>

linearize(channel) == LinearTable[channel + 1]

\* 0.2126 * rLinear + 0.7152 * gLinear + 0.0722 * bLinear, in units of 10^-8
\* (each product is split so that it stays inside 32-bit integers)
getRelativeLuminance(hex) ==
    LET cleanHex == stripHash(hex)
        rLinear == linearize(parseInt16(substring(cleanHex, 0, 2)))
        gLinear == linearize(parseInt16(substring(cleanHex, 2, 4)))
        bLinear == linearize(parseInt16(substring(cleanHex, 4, 6)))
        whole == 2126 * (rLinear \div 10000) + 7152 * (gLinear \div 10000)
                 + 722 * (bLinear \div 10000)
        part == 2126 * (rLinear % 10000) + 7152 * (gLinear % 10000)
                + 722 * (bLinear % 10000)
    IN  whole + (part + 5000) \div 10000

\* (l1 + 0.05) / (l2 + 0.05): lighter and darker not told apart
calculateContrastRatioUnordered(color1Hex, color2Hex) ==
    LET l1 == getRelativeLuminance(color1Hex)
        l2 == getRelativeLuminance(color2Hex)
    IN  [num |-> l1 + 5000000, den |-> l2 + 5000000]

\* (lighter + 0.05) / darker: the 0.05 left out of the divisor
calculateContrastRatioBareDivisor(color1Hex, color2Hex) ==
    LET l1 == getRelativeLuminance(color1Hex)
        l2 == getRelativeLuminance(color2Hex)
        lighter == Max2(l1, l2)
        darker == Min2(l1, l2)
    IN  [num |-> lighter + 5000000, den |-> darker]

\* (darker + 0.05) / (lighter + 0.05): the quotient upside down
calculateContrastRatioInverted(color1Hex, color2Hex) ==
    LET l1 == getRelativeLuminance(color1Hex)
        l2 == getRelativeLuminance(color2Hex)
        lighter == Max2(l1, l2)
        darker == Min2(l1, l2)
    IN  [num |-> darker + 5000000, den |-> lighter + 5000000]

\* (lighter + 0.05) / (darker + 0.05) as the rational num / den
calculateContrastRatio(color1Hex, color2Hex) ==
    LET l1 == getRelativeLuminance(color1Hex)
        l2 == getRelativeLuminance(color2Hex)
        lighter == Max2(l1, l2)
        darker == Min2(l1, l2)
    IN  [num |-> lighter + 5000000, den |-> darker + 5000000]

\* contrastRatio >= 3, the threshold for large text
meetsWCAG_AA_LargeText(contrastRatio) == contrastRatio.num >= 3 * contrastRatio.den

\* contrastRatio >= 4.5
meetsWCAG_AA(contrastRatio) == 2 * contrastRatio.num >= 9 * contrastRatio.den

\* contrastRatio >= 7
meetsWCAG_AAA(contrastRatio) == contrastRatio.num >= 7 * contrastRatio.den

\* num / den to k decimal places: quotient floor(num * 10^k / den) and remainder
RECURSIVE longDivision(_, _, _)
longDivision(num, den, k) ==
    IF k = 0 THEN [q |-> num \div den, r |-> num % den]
    ELSE LET prev == longDivision(num, den, k - 1)
         IN  [q |-> 10 * prev.q + (10 * prev.r) \div den,
              r |-> (10 * prev.r) % den]

\* Math.round(ratio * 100) / 100, in hundredths
round2(contrastRatio) ==
    (longDivision(contrastRatio.num, contrastRatio.den, 3).q + 5) \div 10

RoleOrder == <<"primary", "secondary", "accent", "background", "surface", "text">>
Roles == Range(RoleOrder)

\* Object.entries(colors): <<role, color>> in insertion order
RECURSIVE entriesFrom(_, _)
entriesFrom(colors, i) ==
    IF i > Len(RoleOrder) THEN <<>>
    ELSE <<<<RoleOrder[i], colors[RoleOrder[i]]>>>> \o entriesFrom(colors, i + 1)
ObjectEntries(colors) == entriesFrom(colors, 1)

\* innerLoop that skips j <= i instead of j = i
RECURSIVE innerLoopUpperTriangle(_, _, _)
innerLoopUpperTriangle(colorEntries, i, j) ==
    IF j > Len(colorEntries) THEN <<>>
    ELSE LET textHex == colorEntries[i][2].hex
             bgHex == colorEntries[j][2].hex
             ratio == calculateContrastRatio(textHex, bgHex)
         IN  (IF i < j /\ meetsWCAG_AA(ratio)
              THEN <<[text |-> textHex, background |-> bgHex, ratio |-> round2(ratio)]>>
              ELSE <<>>)
             \o innerLoopUpperTriangle(colorEntries, i, j + 1)

\* the pairs pushed by the inner loop for j = j .. length - 1 (indices from 1 here)
RECURSIVE innerLoop(_, _, _)
innerLoop(colorEntries, i, j) ==
    IF j > Len(colorEntries) THEN <<>>
    ELSE LET textHex == colorEntries[i][2].hex
             bgHex == colorEntries[j][2].hex
             ratio == calculateContrastRatio(textHex, bgHex)
         IN  (IF i # j /\ meetsWCAG_AA(ratio)
              THEN <<[text |-> textHex, background |-> bgHex, ratio |-> round2(ratio)]>>
              ELSE <<>>)
             \o innerLoop(colorEntries, i, j + 1)

RECURSIVE outerLoop(_, _)
outerLoop(colorEntries, i) ==
    IF i > Len(colorEntries) THEN <<>>
    ELSE innerLoop(colorEntries, i, 1) \o outerLoop(colorEntries, i + 1)

\* colours are Color objects; the branch for colours given as bare strings
\* is not modelled
findAccessiblePairs(palette) == outerLoop(ObjectEntries(palette.colors), 1)

(***************************************************************************)
(* PaletteGenerator.                                                       *)
(***************************************************************************)
Color(hex, role, usage) == [hex |-> hex, role |-> role, usage |-> usage]

PaletteOf(primary, secondary, accent, background, surface, text) ==
    [colors |->
        [primary |-> Color(primary, "primary", "Use for main buttons and CTAs"),
         secondary |-> Color(secondary, "secondary", "Use for secondary actions and highlights"),
         accent |-> Color(accent, "accent", "Use for important UI elements and notifications"),
         background |-> Color(background, "background", "Use for main page background"),
         surface |-> Color(surface, "surface", "Use for cards and elevated surfaces"),
         text |-> Color(text, "text", "Use for body text and headings")]]

\* rgbToHex(...Object.values(hslToRgb(h, s, l)))
hslToHex(h, s, l) ==
    LET rgb == hslToRgb(h, s, l) IN rgbToHex(rgb.r, rgb.g, rgb.b)

\* a % n in JavaScript for a >= 0 or a = NaN
jsMod(a, n) == IF a = NaN THEN NaN ELSE a % n
\* a + b in JavaScript for a >= 0 or a = NaN
jsAdd(a, b) == IF a = NaN THEN NaN ELSE a + b

\* warmHues without the second fold of the hue
warmHuesFoldedOnce(seedHue) ==
    LET warmHue == IF seedHue # NaN /\ seedHue > 90 /\ seedHue < 330
                   THEN seedHue % 60 ELSE seedHue
    IN  [primary |-> warmHue,
         secondary |-> jsMod(jsAdd(warmHue, 20), 60),
         accent |-> jsMod(jsAdd(warmHue, 40), 60)]

\* warmHue, secondaryHue and accentHue of generateWarmPalette
warmHues(seedHue) ==
    LET warmHue1 == IF seedHue # NaN /\ seedHue > 90 /\ seedHue < 330
                    THEN seedHue % 60 ELSE seedHue
        warmHue == IF warmHue1 # NaN /\ warmHue1 > 60 /\ warmHue1 < 330
                   THEN warmHue1 % 60 ELSE warmHue1
    IN  [primary |-> warmHue,
         secondary |-> jsMod(jsAdd(warmHue, 20), 60),
         accent |-> jsMod(jsAdd(warmHue, 40), 60)]

generateWarmPalette(seedHue) ==
    LET hues == warmHues(seedHue)
    IN  PaletteOf(hslToHex(hues.primary, 70, 55),
                  hslToHex(hues.secondary, 65, 60),
                  hslToHex(hues.accent, 80, 50),
                  hslToHex(hues.primary, 20, 95),
                  hslToHex(hues.primary, 15, 98),
                  <<"#", "1", "A", "1", "A", "1", "A">>)

\* coolHue, secondaryHue and accentHue of generateCoolPalette
coolHues(seedHue) ==
    LET coolHue1 == IF seedHue # NaN /\ (seedHue < 150 \/ seedHue > 330)
                    THEN 150 + (seedHue % 180) ELSE seedHue
        coolHue == IF coolHue1 # NaN /\ (coolHue1 < 150 \/ coolHue1 > 330)
                   THEN 150 + (coolHue1 % 180) ELSE coolHue1
    IN  [primary |-> coolHue,
         secondary |-> IF coolHue = NaN THEN NaN
                       ELSE 150 + ((coolHue - 150 + 40) % 180),
         accent |-> IF coolHue = NaN THEN NaN
                    ELSE 150 + ((coolHue - 150 + 80) % 180)]

generateCoolPalette(seedHue) ==
    LET hues == coolHues(seedHue)
    IN  PaletteOf(hslToHex(hues.primary, 65, 50),
                  hslToHex(hues.secondary, 60, 55),
                  hslToHex(hues.accent, 75, 45),
                  hslToHex(hues.primary, 15, 96),
                  hslToHex(hues.primary, 10, 99),
                  <<"#", "1", "A", "1", "A", "1", "A">>)

generatePastelPalette(seedHue) ==
    PaletteOf(hslToHex(seedHue, 45, 75),
              hslToHex(jsMod(jsAdd(seedHue, 60), 360), 40, 78),
              hslToHex(jsMod(jsAdd(seedHue, 120), 360), 48, 72),
              hslToHex(seedHue, 25, 95),
              hslToHex(seedHue, 20, 98),
              <<"#", "2", "A", "2", "A", "2", "A">>)

generateDarkModePalette(seedHue) ==
    PaletteOf(hslToHex(seedHue, 70, 60),
              hslToHex(jsMod(jsAdd(seedHue, 30), 360), 65, 55),
              hslToHex(jsMod(jsAdd(seedHue, 60), 360), 80, 65),
              hslToHex(seedHue, 10, 12),
              hslToHex(seedHue, 8, 18),
              <<"#", "F", "5", "F", "5", "F", "5">>)

\* professionalColor with the cap on the saturation of the accent left out
professionalColorAccentUncapped(role, color) ==
    LET rgb == hexToRgb(color.hex)
        hsl == rgbToHsl(rgb.r, rgb.g, rgb.b)
        s == IF role # "text" /\ role # "background" /\ role # "surface" /\ role # "accent"
             THEN Min2(hsl.s, 58) ELSE hsl.s
        newRgb == hslToRgb(hsl.h, s, hsl.l)
    IN  Color(rgbToHex(newRgb.r, newRgb.g, newRgb.b), color.role, color.usage)

\* one iteration of the loop over Object.entries(palette.colors)
professionalColor(role, color) ==
    LET rgb == hexToRgb(color.hex)
        hsl == rgbToHsl(rgb.r, rgb.g, rgb.b)
        s == IF role # "text" /\ role # "background" /\ role # "surface"
             THEN Min2(hsl.s, 58) ELSE hsl.s
        newRgb == hslToRgb(hsl.h, s, hsl.l)
    IN  Color(rgbToHex(newRgb.r, newRgb.g, newRgb.b), color.role, color.usage)

_applyProfessionalAdjustments(palette) ==
    [palette EXCEPT !.colors =
        [role \in DOMAIN palette.colors |-> professionalColor(role, palette.colors[role])]]

\* playfulColor raising the saturation of the accent only
playfulColorSaturationOnly(role, color) ==
    LET rgb == hexToRgb(color.hex)
        hsl == rgbToHsl(rgb.r, rgb.g, rgb.b)
        boost == role = "accent" /\ hsl.s >= 50
        s == IF boost THEN Max2(hsl.s, 65) ELSE hsl.s
        newRgb == hslToRgb(hsl.h, s, hsl.l)
    IN  Color(rgbToHex(newRgb.r, newRgb.g, newRgb.b), color.role, color.usage)

playfulColor(role, color) ==
    LET rgb == hexToRgb(color.hex)
        hsl == rgbToHsl(rgb.r, rgb.g, rgb.b)
        boost == role = "accent" /\ hsl.s >= 50
        s == IF boost THEN Max2(hsl.s, 65) ELSE hsl.s
        l == IF boost THEN Max2(hsl.l, 52) ELSE hsl.l
        newRgb == hslToRgb(hsl.h, s, l)
    IN  Color(rgbToHex(newRgb.r, newRgb.g, newRgb.b), color.role, color.usage)

_applyPlayfulAdjustments(palette) ==
    [palette EXCEPT !.colors =
        [role \in DOMAIN palette.colors |-> playfulColor(role, palette.colors[role])]]

\* Property names every object literal inherits from Object.prototype: obj[key]
\* is then a function (or, for __proto__, an object), which is truthy.
ObjectPrototypeKeys == {"constructor", "toString", "valueOf", "hasOwnProperty",
                        "isPrototypeOf", "propertyIsEnumerable", "toLocaleString",
                        "__proto__"}

\* obj[key] for an object literal: its own value, an inherited member, or undefined
Lookup(obj, key) ==
    IF key \in DOMAIN obj THEN [kind |-> "own", value |-> obj[key]]
    ELSE IF key \in ObjectPrototypeKeys THEN [kind |-> "inherited"]
    ELSE [kind |-> "undefined"]

\* A number too wide for one machine word is kept as two limbs, high * 65536
\* + low with low in 0..65535.  ToInt32 keeps the low 32 bits as a signed integer.
ToInt32(high, low) == (((high + 32768) % 65536) - 32768) * 65536 + low

\* hash << 5: ToInt32 of hash * 32
shiftLeft5(hash) ==
    LET low == 32 * (hash % 65536)
    IN  ToInt32(32 * (hash \div 65536) + (low \div 65536), low % 65536)

\* hashStep with (hash << 5) + hash in place of (hash << 5) - hash
hashStepShiftPlus(hash, charCode) ==
    LET shifted == shiftLeft5(hash)
        low == (shifted % 65536) + (hash % 65536) + charCode
        high == (shifted \div 65536) + (hash \div 65536) + (low \div 65536)
    IN  ToInt32(high, low % 65536)

\* hash = ((hash << 5) - hash) + charCode; hash = hash & hash: the difference
\* and the sum are exact in a double, and hash & hash is ToInt32 of the sum
hashStep(hash, charCode) ==
    LET shifted == shiftLeft5(hash)
        low == (shifted % 65536) - (hash % 65536) + charCode
        high == (shifted \div 65536) - (hash \div 65536) + (low \div 65536)
    IN  ToInt32(high, low % 65536)

\* the loop over purpose.charCodeAt(i); an empty purpose skips it
RECURSIVE hashOf(_)
hashOf(purpose) ==
    IF Len(purpose) = 0 THEN 0
    ELSE hashStep(hashOf(SubSeq(purpose, 1, Len(purpose) - 1)), purpose[Len(purpose)])

\* Math.abs(hash % n): JavaScript's remainder has the sign of the dividend
absRem(hash, n) == IF hash >= 0 THEN hash % n ELSE (n - (hash % n)) % n

typeHueMap == [x \in {"web-dashboard", "mobile-app", "portfolio", "e-commerce",
                      "saas", "professional", "playful"} |->
    CASE x = "web-dashboard" -> 210
      [] x = "mobile-app" -> 280
      [] x = "portfolio" -> 180
      [] x = "e-commerce" -> 350
      [] x = "saas" -> 200
      [] x = "professional" -> 220
      [] x = "playful" -> 30]

\* _generateBaseHue from its hash on
baseHueOf(appType, hash) ==
    LET entry == Lookup(typeHueMap, appType)
        variation == absRem(hash, 60) - 30
    IN  \* typeHueMap[appType] || 200; an inherited function plus a number is a
        \* string, and a string % 360 is NaN
        IF entry.kind = "inherited" THEN NaN
        ELSE IF entry.kind = "own" THEN (entry.value + variation + 360) % 360
        ELSE (200 + variation + 360) % 360

_generateBaseHue(appType, purpose) == baseHueOf(appType, hashOf(purpose))

moodNames ==
    [warm |-> <<"Sunset Glow", "Autumn Warmth", "Desert Heat">>,
     cool |-> <<"Ocean Breeze", "Arctic Frost", "Mountain Mist">>,
     pastel |-> <<"Soft Dreams", "Gentle Touch", "Cloud Nine">>,
     dark |-> <<"Midnight Sky", "Shadow Depths", "Cosmic Night">>]

typeModifiers == [x \in DOMAIN typeHueMap |->
    CASE x = "professional" -> "Professional"
      [] x = "web-dashboard" -> "Dashboard"
      [] x = "mobile-app" -> "Mobile"
      [] x = "portfolio" -> "Creative"
      [] x = "e-commerce" -> "Commerce"
      [] x = "saas" -> "Enterprise"
      [] x = "playful" -> "Playful"]

\* index counts from 0 as in the source
_generatePaletteName(colorMood, appType, index) ==
    LET names == Lookup(moodNames, colorMood)
        \* (moodNames[colorMood] || moodNames.cool)[index]; a function has no
        \* property 0, so the name is undefined
        baseName == IF names.kind = "own" THEN names.value[index + 1]
                    ELSE IF names.kind = "inherited" THEN "undefined"
                    ELSE moodNames.cool[index + 1]
        entry == Lookup(typeModifiers, appType)
        modifier == IF entry.kind = "own" THEN entry.value
                    ELSE IF entry.kind = "inherited"
                    THEN "function Object() { [native code] }"
                    ELSE ""
    IN  IF modifier # "" THEN baseName \o " " \o modifier ELSE baseName

\* each description as <<first character, rest>>
moodDescriptions ==
    [warm |-> <<"w", "arm and inviting">>,
     cool |-> <<"c", "ool and calming">>,
     pastel |-> <<"s", "oft and gentle">>,
     dark |-> <<"b", "old and modern">>]

typeDescriptions == [x \in DOMAIN typeHueMap |->
    CASE x = "professional" -> "professional appeal"
      [] x = "web-dashboard" -> "data-focused clarity"
      [] x = "mobile-app" -> "mobile-friendly design"
      [] x = "portfolio" -> "creative expression"
      [] x = "e-commerce" -> "conversion-optimized"
      [] x = "saas" -> "enterprise reliability"
      [] x = "playful" -> "playful energy"]

\* mood.charAt is not a function when moodDescriptions[colorMood] is inherited
vibeThrows(colorMood) == Lookup(moodDescriptions, colorMood).kind = "inherited"

_generateVibeDescription(colorMood, appType) ==
    LET entry == Lookup(moodDescriptions, colorMood)
        mood == IF entry.kind = "own" THEN entry.value
                ELSE <<"b", "alanced and harmonious">>
        tentry == Lookup(typeDescriptions, appType)
        type == IF tentry.kind = "own" THEN tentry.value
                ELSE IF tentry.kind = "inherited"
                THEN "function Object() { [native code] }"
                ELSE "versatile application"
    IN  toUpperCaseChar(mood[1]) \o mood[2] \o " with " \o type

\* the mood dispatch at the top of the loop body; anything else is cool
moodPalette(colorMood, seed) ==
    IF colorMood = "warm" THEN generateWarmPalette(seed)
    ELSE IF colorMood = "cool" THEN generateCoolPalette(seed)
    ELSE IF colorMood = "pastel" THEN generatePastelPalette(seed)
    ELSE IF colorMood = "dark" THEN generateDarkModePalette(seed)
    ELSE generateCoolPalette(seed)

\* the application type adjustment that follows it
typeAdjusted(appType, palette) ==
    IF appType = "professional" \/ appType = "web-dashboard" \/ appType = "saas"
    THEN _applyProfessionalAdjustments(palette)
    ELSE IF appType = "playful" \/ appType = "mobile-app"
    THEN _applyPlayfulAdjustments(palette)
    ELSE palette

\* the body of the loop in generate() for index i = 0, 1, 2
paletteAt(preferences, seeds, i) ==
    LET appType == preferences.appType
        colorMood == preferences.colorMood
        palette == typeAdjusted(appType, moodPalette(colorMood, seeds[i + 1]))
    IN  [colors |-> palette.colors,
         name |-> _generatePaletteName(colorMood, appType, i),
         vibe |-> _generateVibeDescription(colorMood, appType),
         accessiblePairs |-> findAccessiblePairs(palette)]

\* generate(preferences): the returned array, or the TypeError it throws on
\* the first iteration
generate(preferences) ==
    LET baseHue == _generateBaseHue(preferences.appType, preferences.purpose)
        seeds == <<baseHue, jsMod(jsAdd(baseHue, 120), 360),
                   jsMod(jsAdd(baseHue, 240), 360)>>
    IN  IF vibeThrows(preferences.colorMood)
        THEN [threw |-> TRUE, palettes |-> <<>>]
        ELSE [threw |-> FALSE,
              palettes |-> [i \in 1..3 |-> paletteAt(preferences, seeds, i - 1)]]

(***************************************************************************)
(* Inputs.                                                                 *)
(***************************************************************************)
KnownAppTypes == DOMAIN typeHueMap
KnownMoods == {"warm", "cool", "pastel", "dark"}
\* "game" and "neon" stand for strings found in no table
AppTypes == KnownAppTypes \cup {"game", "constructor"}
ColorMoods == KnownMoods \cup {"neon", "constructor"}
\* char codes of ' ' and 'u'
Alphabet == {32, 117}
Purposes == UNION {[1..n -> Alphabet] : n \in 0..MaxPurposeLen}
AllPreferences == [appType : AppTypes, purpose : Purposes, colorMood : ColorMoods]

\* colours for palettes handed to findAccessiblePairs directly
Swatches == <<
    <<"#", "F", "F", "F", "F", "F", "F">>,
    <<"#", "7", "6", "7", "6", "7", "6">>,
    <<"#", "7", "7", "7", "7", "7", "7">>,
    <<"#", "0", "0", "0", "0", "0", "0">>,
    <<"#", "5", "9", "5", "9", "5", "9">>>>
SwatchSet == {Swatches[i] : i \in 1..NumSwatches}
SwatchPalettes ==
    {PaletteOf(c[1], c[2], c[3], c[4], c[5], c[6]) : c \in [1..6 -> SwatchSet]}

\* characters for hex strings handed to hexToRgb directly
HexChars == <<"0", "f", "A", "9", "c", "E", "1", "b">>
HexCharSet == {HexChars[i] : i \in 1..NumHexChars}
HexInputs ==
    LET digits == [1..6 -> HexCharSet]
    IN  digits \cup {<<"#">> \o d : d \in digits}

\* channel values for the triples handed to rgbToHsl directly
Channels == <<2, 228, 230, 0, 255, 23, 128>>
ChannelSet == {Channels[i] : i \in 1..NumChannels}
RgbInputs == ChannelSet \X ChannelSet \X ChannelSet

\* palettes handed to exportAsJSON directly: names and vibes with characters
\* that JSON escapes, and a different hex for every role
NameChars == <<"a", "\"", "\\", "\n", " ">>
NameCharSet == {NameChars[i] : i \in 1..NumNameChars}
Names == UNION {[1..n -> NameCharSet] : n \in 0..MaxNameLen}
Vibes == {v \in Names : Len(v) <= 1}
RotatedSwatches(k) ==
    PaletteOf(Swatches[(k % 5) + 1], Swatches[((k + 1) % 5) + 1],
              Swatches[((k + 2) % 5) + 1], Swatches[((k + 3) % 5) + 1],
              Swatches[((k + 4) % 5) + 1], Swatches[(k % 5) + 1])
ExportPalettes ==
    {[name |-> n, vibe |-> v, colors |-> RotatedSwatches(k).colors] :
        n \in Names, v \in Vibes, k \in 1..NumSwatches}

\* the seeds and types handed to the body of the loop in generate(): every
\* integer hue, and NaN for a type whose base hue is an inherited member
SeedHues == 0..359
SeedsOf(appType) ==
    IF Lookup(typeHueMap, appType).kind = "inherited" THEN {NaN} ELSE SeedHues
SeedInputs ==
    {[colorMood |-> colorMood, appType |-> appType, seedHue |-> seedHue] :
        colorMood \in KnownMoods, appType \in AppTypes, seedHue \in SeedHues \cup {NaN}}

\* the colours and the signed amounts handed to adjustHue, adjustSaturation
\* and adjustLightness directly
AdjustHexes == <<
    <<"#", "F", "F", "0", "0", "0", "2">>,
    <<"#", "3", "3", "6", "6", "c", "c">>,
    <<"#", "1", "A", "1", "A", "1", "A">>,
    <<"#", "E", "8", "F", "0", "A", "0">>,
    <<"#", "8", "0", "4", "0", "2", "0">>>>
AdjustHexSet == {AdjustHexes[i] : i \in 1..NumAdjustHexes}
Deltas == <<0 - 400, 0 - 30, 0, 30, 100, 360, 0 - 150, 725>>
DeltaSet == {Deltas[i] : i \in 1..NumDeltas}
AdjustInputs == [hex : AdjustHexSet, delta : DeltaSet]

\* channel digits for the colours handed to calculateContrastRatio directly
Levels == <<<<"0", "0">>, <<"F", "F">>, <<"7", "6">>, <<"1", "a">>, <<"C", "8">>>>
LevelSet == {Levels[i] : i \in 1..NumLevels}
ContrastColors == {<<"#">> \o r \o g \o b : r \in LevelSet, g \in LevelSet, b \in LevelSet}
ContrastPairs == ContrastColors \X ContrastColors

(***************************************************************************)
(* State: one call, of generate() or of a utility function.                *)
(***************************************************************************)
VARIABLES
    preferences,   \* the Preferences value the caller holds and passes to generate()
    result,        \* what generate() produced: [threw, palettes]
    input,         \* the argument of a direct call of a utility function
    output,        \* what that call returned
    pc             \* "call" before the call, "return" after it

vars == <<preferences, result, input, output, pc>>

NoResult == [threw |-> FALSE, palettes |-> <<>>]
NoPreferences == [appType |-> "", purpose |-> <<>>, colorMood |-> ""]

\* The application (app.js): its state object, what the page shows, and the
\* asynchronous work it has started.
VARIABLES
    state,         \* state.preferences (NoPreferences for null) and state.palettes
    dom,           \* error messages, loading indicator, submit button, container, toast
    pending,       \* handlers suspended at an await, oldest first
    timers,        \* toast auto-hide timers not yet fired
    clipboard,     \* the text on the system clipboard
    events,        \* submit and click events handled so far
    log            \* clicks and calls of generate(), writeText(), execCommand() and
                   \* showToast(), in order

appVars == <<state, dom, pending, timers, clipboard, events, log>>

Fields == {"appType", "purpose", "colorMood"}

\* the page when init() has run: nothing generated, nothing shown
AppIdle ==
    /\ state = [preferences |-> NoPreferences, palettes |-> <<>>]
    /\ dom = [errors |-> [f \in Fields |-> ""],
              loadingHidden |-> TRUE,
              submitDisabled |-> FALSE,
              submitText |-> "Generate Palettes",
              container |-> <<>>,
              toastMessage |-> <<>>,
              toastHidden |-> TRUE]
    /\ pending = <<>>
    /\ timers = 0
    /\ clipboard = <<>>
    /\ events = 0
    /\ log = <<>>

\* generate(preferences)
Init ==
    /\ preferences \in AllPreferences
    /\ result = NoResult
    /\ input = <<>>
    /\ output = <<>>
    /\ pc = "call"
    /\ AppIdle

Generate ==
    /\ pc = "call"
    /\ result' = generate(preferences)
    /\ pc' = "return"
    /\ UNCHANGED <<preferences, input, output>>
    /\ UNCHANGED appVars

Next == Generate

Spec == Init /\ [][Next]_vars

\* findAccessiblePairs(palette) on any palette of swatch colours
InitPairs ==
    /\ preferences = NoPreferences
    /\ result = NoResult
    /\ input \in SwatchPalettes
    /\ output = <<>>
    /\ pc = "call"
    /\ AppIdle

FindPairs ==
    /\ pc = "call"
    /\ output' = findAccessiblePairs(input)
    /\ pc' = "return"
    /\ UNCHANGED <<preferences, result, input>>
    /\ UNCHANGED appVars

NextPairs == FindPairs

SpecPairs == InitPairs /\ [][NextPairs]_vars

\* rgbToHex(hexToRgb(hex)) on any well-formed hex string
InitHex ==
    /\ preferences = NoPreferences
    /\ result = NoResult
    /\ input \in HexInputs
    /\ output = <<>>
    /\ pc = "call"
    /\ AppIdle

RoundTrip ==
    /\ pc = "call"
    /\ LET rgb == hexToRgb(input)
       IN  output' = rgbToHex(rgb.r, rgb.g, rgb.b)
    /\ pc' = "return"
    /\ UNCHANGED <<preferences, result, input>>
    /\ UNCHANGED appVars

NextHex == RoundTrip

SpecHex == InitHex /\ [][NextHex]_vars

\* calculateContrastRatio(a, b) and calculateContrastRatio(b, a) on any pair
InitContrast ==
    /\ preferences = NoPreferences
    /\ result = NoResult
    /\ input \in ContrastPairs
    /\ output = <<>>
    /\ pc = "call"
    /\ AppIdle

Contrast ==
    /\ pc = "call"
    /\ output' = [forward |-> calculateContrastRatio(input[1], input[2]),
                  backward |-> calculateContrastRatio(input[2], input[1])]
    /\ pc' = "return"
    /\ UNCHANGED <<preferences, result, input>>
    /\ UNCHANGED appVars

NextContrast == Contrast

SpecContrast == InitContrast /\ [][NextContrast]_vars

\* hslToRgb(rgbToHsl(r, g, b)) on any triple
InitRgb ==
    /\ preferences = NoPreferences
    /\ result = NoResult
    /\ input \in RgbInputs
    /\ output = <<>>
    /\ pc = "call"
    /\ AppIdle

\* rgbToHsl(r, g, b)
MeasureHsl ==
    /\ pc = "call"
    /\ output' = rgbToHsl(input[1], input[2], input[3])
    /\ pc' = "hsl"
    /\ UNCHANGED <<preferences, result, input>>
    /\ UNCHANGED appVars

\* hslToRgb(h, s, l) on what rgbToHsl returned
RgbRoundTrip ==
    /\ pc = "hsl"
    /\ output' = hslToRgb(output.h, output.s, output.l)
    /\ pc' = "return"
    /\ UNCHANGED <<preferences, result, input>>
    /\ UNCHANGED appVars

NextRgb == MeasureHsl \/ RgbRoundTrip

SpecRgb == InitRgb /\ [][NextRgb]_vars

(***************************************************************************)
(* ExportManager.exportAsJSON, and JSON.parse of what it returns.  Texts   *)
(* are sequences of characters.                                            *)
(***************************************************************************)
\* the property names written by exportAsJSON, as characters
KeyChars ==
    [name |-> <<"n", "a", "m", "e">>,
     vibe |-> <<"v", "i", "b", "e">>,
     colors |-> <<"c", "o", "l", "o", "r", "s">>,
     primary |-> <<"p", "r", "i", "m", "a", "r", "y">>,
     secondary |-> <<"s", "e", "c", "o", "n", "d", "a", "r", "y">>,
     accent |-> <<"a", "c", "c", "e", "n", "t">>,
     background |-> <<"b", "a", "c", "k", "g", "r", "o", "u", "n", "d">>,
     surface |-> <<"s", "u", "r", "f", "a", "c", "e">>,
     text |-> <<"t", "e", "x", "t">>]

\* JSON.stringify of the characters of a string: ", \ and line feed escaped
RECURSIVE escapeChars(_)
escapeChars(str) ==
    IF Len(str) = 0 THEN <<>>
    ELSE (CASE Head(str) = "\"" -> <<"\\", "\"">>
            [] Head(str) = "\\" -> <<"\\", "\\">>
            [] Head(str) = "\n" -> <<"\\", "n">>
            [] OTHER -> <<Head(str)>>)
         \o escapeChars(Tail(str))

\* JSON.stringify of a string
quote(str) == <<"\"">> \o escapeChars(str) \o <<"\"">>

RECURSIVE spaces(_)
spaces(n) == IF n = 0 THEN <<>> ELSE <<" ">> \o spaces(n - 1)

\* the lines of the members of an object whose values are strings, at an
\* indentation, separated by ",\n"
RECURSIVE stringifyMembers(_, _, _)
stringifyMembers(members, i, indent) ==
    IF i > Len(members) THEN <<>>
    ELSE spaces(indent) \o quote(members[i][1]) \o <<":", " ">> \o quote(members[i][2])
         \o (IF i < Len(members) THEN <<",", "\n">> ELSE <<>>)
         \o stringifyMembers(members, i + 1, indent)

\* JSON.stringify(exportData, null, 2) for exportData = {name, vibe, colors}
stringify(exportData) ==
    <<"{", "\n">>
    \o stringifyMembers(<<<<KeyChars.name, exportData.name>>,
                          <<KeyChars.vibe, exportData.vibe>>>>, 1, 2)
    \o <<",", "\n">> \o spaces(2) \o quote(KeyChars.colors) \o <<":", " ">>
    \o (IF Len(exportData.colors) = 0 THEN <<"{", "}">>
        ELSE <<"{", "\n">> \o stringifyMembers(exportData.colors, 1, 4)
             \o <<"\n">> \o spaces(2) \o <<"}">>)
    \o <<"\n", "}">>

\* exportAsJSON with palette.name written for vibe as well
exportAsJSONNameForVibe(palette) ==
    stringify([name |-> palette.name,
               vibe |-> palette.name,
               colors |-> [i \in 1..Len(ObjectEntries(palette.colors)) |->
                   <<KeyChars[ObjectEntries(palette.colors)[i][1]],
                     ObjectEntries(palette.colors)[i][2].hex>>]])

\* exportData.colors is kept as its entries <<role, hex>> in insertion order
exportAsJSON(palette) ==
    stringify([name |-> palette.name,
               vibe |-> palette.vibe,
               colors |-> [i \in 1..Len(ObjectEntries(palette.colors)) |->
                   <<KeyChars[ObjectEntries(palette.colors)[i][1]],
                     ObjectEntries(palette.colors)[i][2].hex>>]])

\* JSON.parse: white space
WhiteSpace == {" ", "\n", "\t", "\r"}

RECURSIVE skipWhiteSpace(_, _)
skipWhiteSpace(text, i) ==
    IF i <= Len(text) /\ text[i] \in WhiteSpace THEN skipWhiteSpace(text, i + 1) ELSE i

\* JSON.parse: the characters of a string from position i, just after the
\* opening quote: [value, next] with next after the closing quote
RECURSIVE parseChars(_, _)
parseChars(text, i) ==
    IF text[i] = "\"" THEN [value |-> <<>>, next |-> i + 1]
    ELSE IF text[i] = "\\"
    THEN LET rest == parseChars(text, i + 2)
             char == CASE text[i + 1] = "n" -> "\n"
                       [] text[i + 1] = "t" -> "\t"
                       [] text[i + 1] = "r" -> "\r"
                       [] OTHER -> text[i + 1]
         IN  [value |-> <<char>> \o rest.value, next |-> rest.next]
    ELSE LET rest == parseChars(text, i + 1)
         IN  [value |-> <<text[i]>> \o rest.value, next |-> rest.next]

\* the object with the members of a list of <<key, value>>, a later member
\* replacing an earlier one of the same key
ObjectOf(members) ==
    [key \in {members[k][1] : k \in 1..Len(members)} |->
        LET last == CHOOSE k \in 1..Len(members) :
                /\ members[k][1] = key
                /\ \A m \in (k + 1)..Len(members) : members[m][1] # key
        IN  members[last][2]]

\* JSON.parse: a string or an object at position i; [value, next]
RECURSIVE parseValue(_, _)
RECURSIVE parseMembers(_, _)
parseValue(text, i) ==
    IF text[i] = "\"" THEN parseChars(text, i + 1)
    ELSE \* text[i] = "{"
         LET first == skipWhiteSpace(text, i + 1)
         IN  IF text[first] = "}" THEN [value |-> ObjectOf(<<>>), next |-> first + 1]
             ELSE LET members == parseMembers(text, first)
                  IN  [value |-> ObjectOf(members.value), next |-> members.next]

\* JSON.parse: the members from the key at position i to the closing brace
parseMembers(text, i) ==
    LET key == parseChars(text, i + 1)
        colon == skipWhiteSpace(text, key.next)
        member == parseValue(text, skipWhiteSpace(text, colon + 1))
        after == skipWhiteSpace(text, member.next)
    IN  IF text[after] = ","
        THEN LET rest == parseMembers(text, skipWhiteSpace(text, after + 1))
             IN  [value |-> <<<<key.value, member.value>>>> \o rest.value,
                  next |-> rest.next]
        ELSE \* text[after] = "}"
             [value |-> <<<<key.value, member.value>>>>, next |-> after + 1]

JSONparse(text) == parseValue(text, skipWhiteSpace(text, 1)).value

(***************************************************************************)
(* The application: form submission (handleFormSubmit and what it calls).  *)
(***************************************************************************)
\* String.prototype.trim; the space is the only white space in Alphabet
RECURSIVE trimStart(_)
trimStart(str) ==
    IF Len(str) > 0 /\ Head(str) = 32 THEN trimStart(Tail(str)) ELSE str

RECURSIVE trimEnd(_)
trimEnd(str) ==
    IF Len(str) > 0 /\ str[Len(str)] = 32
    THEN trimEnd(SubSeq(str, 1, Len(str) - 1)) ELSE str

trim(str) == trimEnd(trimStart(str))

\* what the three form controls can hold when the form is submitted
FormAppTypes == {"", "saas"}
FormMoods == {"", "warm", "constructor"}
FormPurposes == UNION {[1..n -> Alphabet] : n \in 0..MaxFormPurposeLen}
Forms == [appType : FormAppTypes, purpose : FormPurposes, colorMood : FormMoods]

getFormData(form) ==
    [appType |-> form.appType, purpose |-> trim(form.purpose),
     colorMood |-> form.colorMood]

ErrorMessages ==
    [appType |-> "Please select an application type",
     purpose |-> "Please describe your application purpose",
     colorMood |-> "Please select a color mood"]

\* validateForm without the test of purpose
validateFormTwoFields(formData) ==
    LET missing == {f \in Fields :
            \/ f = "appType" /\ formData.appType = ""
            \/ f = "colorMood" /\ formData.colorMood = ""}
    IN  [isValid |-> missing = {},
         errors |-> [f \in missing |-> ErrorMessages[f]]]

\* errors is the object built by the three tests, keyed by field name
validateForm(formData) ==
    LET missing == {f \in Fields :
            \/ f = "appType" /\ formData.appType = ""
            \/ f = "purpose" /\ (Len(formData.purpose) = 0
                                 \/ Len(trim(formData.purpose)) = 0)
            \/ f = "colorMood" /\ formData.colorMood = ""}
    IN  [isValid |-> missing = {},
         errors |-> [f \in missing |-> ErrorMessages[f]]]

clearErrors(d) == [d EXCEPT !.errors = [f \in Fields |-> ""]]

displayErrors(d, errors) ==
    [d EXCEPT !.errors = [f \in Fields |->
        IF f \in DOMAIN errors THEN errors[f] ELSE d.errors[f]]]

showLoading(d) ==
    [d EXCEPT !.loadingHidden = FALSE, !.container = <<>>,
              !.submitDisabled = TRUE, !.submitText = "Generating..."]

\* hideLoading that leaves the submit button as it is
hideLoadingIndicatorOnly(d) == [d EXCEPT !.loadingHidden = TRUE]

hideLoading(d) ==
    [d EXCEPT !.loadingHidden = TRUE,
              !.submitDisabled = FALSE, !.submitText = "Generate Palettes"]

\* showToast(message) on the page; the timer it starts is counted in timers
\* a message is the list of the pieces of its text
showToast(d, message) == [d EXCEPT !.toastMessage = message, !.toastHidden = FALSE]

\* render without its clear(): the cards are added to what the container holds
renderWithoutClear(d, palettes) ==
    [d EXCEPT !.container =
        d.container \o
        [i \in 1..Len(palettes) |-> [kind |-> "palette-card", palette |-> palettes[i]]]]

\* PaletteDisplay.render(palettes): clear(), then one card per palette
render(d, palettes) ==
    [d EXCEPT !.container =
        [i \in 1..Len(palettes) |-> [kind |-> "palette-card", palette |-> palettes[i]]]]

displayGenerationError(d, message) ==
    [d EXCEPT !.container =
        Append(d.container, [kind |-> "generation-error", message |-> message])]

Called(op, arg, event) == [op |-> op, arg |-> arg, event |-> event]

\* a list without its i-th element
Remove(list, i) == SubSeq(list, 1, i - 1) \o SubSeq(list, i + 1, Len(list))

\* handleFormSubmit(event) up to its await, with the controls holding form
SubmitForm(form) ==
    /\ events < MaxEvents
    /\ events' = events + 1
    /\ LET formData == getFormData(form)
           validation == validateForm(formData)
       IN  IF ~validation.isValid
           THEN /\ dom' = displayErrors(clearErrors(dom), validation.errors)
                /\ UNCHANGED <<state, pending>>
           ELSE /\ state' = [state EXCEPT !.preferences = formData]
                /\ dom' = showLoading(clearErrors(dom))
                /\ pending' = Append(pending, [kind |-> "submit", event |-> events + 1,
                                               formData |-> formData])
    /\ UNCHANGED <<timers, clipboard, log>>
    /\ UNCHANGED vars

HandleFormSubmit == \E form \in Forms : SubmitForm(form)

\* handleFormSubmit(event) from its await on: the 100 ms timers fire in order
ResumeFormSubmit ==
    /\ \E i \in 1..Len(pending) :
       /\ pending[i].kind = "submit"
       /\ \A j \in 1..(i - 1) : pending[j].kind # "submit"
       /\ pending' = Remove(pending, i)
       /\ \E generated \in {generate(pending[i].formData)} :
          LET formData == pending[i].formData
              event == pending[i].event
          IN  IF ~generated.threw
              THEN /\ state' = [state EXCEPT !.palettes = generated.palettes]
                   /\ dom' = showToast(hideLoading(render(dom, generated.palettes)),
                                       <<"Successfully generated 3 color palettes!">>)
                   /\ log' = log \o <<Called("generate", formData, event),
                                      Called("showToast", <<"Successfully generated 3 color palettes!">>, event)>>
              ELSE /\ UNCHANGED state
                   /\ dom' = displayGenerationError(
                                showToast(hideLoading(dom),
                                          <<"Error generating palettes. Please try again.">>),
                                "mood.charAt is not a function")
                   /\ log' = log \o <<Called("generate", formData, event),
                                      Called("showToast", <<"Error generating palettes. Please try again.">>, event)>>
    /\ timers' = timers + 1
    /\ UNCHANGED <<clipboard, events>>
    /\ UNCHANGED vars

\* the 3 s timer of showToast
HideToast ==
    /\ timers > 0
    /\ timers' = timers - 1
    /\ dom' = [dom EXCEPT !.toastHidden = TRUE]
    /\ UNCHANGED <<state, pending, clipboard, events, log>>
    /\ UNCHANGED vars

\* `Copied ${text} to clipboard`
CopiedMessage(text) == <<"Copied ">> \o text \o <<" to clipboard">>

FailedMessage == <<"Failed to copy to clipboard">>

\* what document.execCommand('copy') can do
ExecCommandOutcomes == {"true", "false", "throws"}

\* copyToClipboardFallback with no toast when the copy did not succeed
copyToClipboardFallbackSilent(app, text, event, execCommand) ==
    LET called == Called("execCommand", [text |-> text, result |-> execCommand], event)
    IN  IF execCommand = "true"
        THEN [dom |-> showToast(app.dom, CopiedMessage(text)),
              clipboard |-> text,
              timers |-> app.timers + 1,
              log |-> app.log \o <<called, Called("showToast", CopiedMessage(text), event)>>]
        ELSE [dom |-> app.dom,
              clipboard |-> app.clipboard,
              timers |-> app.timers,
              log |-> app.log \o <<called>>]

\* copyToClipboardFallback(text) on the page, the clipboard, the timers and
\* the log, with the outcome of execCommand('copy')
copyToClipboardFallback(app, text, event, execCommand) ==
    LET called == Called("execCommand", [text |-> text, result |-> execCommand], event)
    IN  IF execCommand = "true"
        THEN [dom |-> showToast(app.dom, CopiedMessage(text)),
              clipboard |-> text,
              timers |-> app.timers + 1,
              log |-> app.log \o <<called, Called("showToast", CopiedMessage(text), event)>>]
        ELSE [dom |-> showToast(app.dom, FailedMessage),
              clipboard |-> app.clipboard,
              timers |-> app.timers + 1,
              log |-> app.log \o <<called, Called("showToast", FailedMessage, event)>>]

\* the elements of the container a click can land on: the HEX code button of
\* a role on a palette card, or an element outside every HEX code button
ClickRoles == {"primary", "text"}
ClickTargets ==
    {[hexButton |-> FALSE, dataHex |-> <<>>]}
    \cup {[hexButton |-> TRUE, dataHex |-> dom.container[i].palette.colors[role].hex] :
            i \in {k \in 1..Len(dom.container) : dom.container[k].kind = "palette-card"},
            role \in ClickRoles}

\* handleHexCodeClick(event) and copyToClipboard(text) up to its await
HandleHexCodeClick ==
    /\ events < MaxEvents
    /\ Len(dom.container) > 0
    /\ events' = events + 1
    /\ \E target \in ClickTargets :
       LET event == events + 1
           clicked == Called("click", target, event)
       IN  IF target.hexButton /\ Len(target.dataHex) > 0
           THEN \E clipboardApi \in BOOLEAN :
                IF clipboardApi
                THEN /\ pending' = Append(pending, [kind |-> "write", event |-> event,
                                                    text |-> target.dataHex])
                     /\ log' = Append(log, clicked)
                     /\ UNCHANGED <<dom, clipboard, timers>>
                ELSE \E execCommand \in ExecCommandOutcomes :
                     LET app == copyToClipboardFallback(
                                    [dom |-> dom, clipboard |-> clipboard, timers |-> timers,
                                     log |-> Append(log, clicked)],
                                    target.dataHex, event, execCommand)
                     IN  /\ dom' = app.dom
                         /\ clipboard' = app.clipboard
                         /\ timers' = app.timers
                         /\ log' = app.log
                         /\ UNCHANGED pending
           ELSE /\ log' = Append(log, clicked)
                /\ UNCHANGED <<dom, clipboard, timers, pending>>
    /\ UNCHANGED state
    /\ UNCHANGED vars

\* copyToClipboard(text) from its await on: navigator.clipboard.writeText
\* resolves or rejects
WriteTextSettles ==
    /\ \E i \in 1..Len(pending) :
       /\ pending[i].kind = "write"
       /\ pending' = Remove(pending, i)
       /\ \E resolved \in BOOLEAN :
          LET text == pending[i].text
              event == pending[i].event
              written == Called("writeText", [text |-> text, resolved |-> resolved], event)
          IN  IF resolved
              THEN /\ clipboard' = text
                   /\ dom' = showToast(dom, CopiedMessage(text))
                   /\ timers' = timers + 1
                   /\ log' = log \o <<written, Called("showToast", CopiedMessage(text), event)>>
              ELSE \E execCommand \in ExecCommandOutcomes :
                   LET app == copyToClipboardFallback(
                                  [dom |-> dom, clipboard |-> clipboard, timers |-> timers,
                                   log |-> Append(log, written)],
                                  text, event, execCommand)
                   IN  /\ dom' = app.dom
                       /\ clipboard' = app.clipboard
                       /\ timers' = app.timers
                       /\ log' = app.log
    /\ UNCHANGED <<state, events>>
    /\ UNCHANGED vars

UtilIdle ==
    /\ preferences = NoPreferences
    /\ result = NoResult
    /\ input = <<>>
    /\ output = <<>>
    /\ pc = "idle"

InitApp == UtilIdle /\ AppIdle

NextApp ==
    \/ HandleFormSubmit
    \/ ResumeFormSubmit
    \/ HideToast
    \/ HandleHexCodeClick
    \/ WriteTextSettles

SpecApp == InitApp /\ [][NextApp]_<<vars, appVars>>

\* the 100 ms timer of the oldest suspended handleFormSubmit fires and the
\* handler leaves pending: of the steps of NextApp exactly those of
\* ResumeFormSubmit, and enabled exactly when ResumeFormSubmit is
SubmitTimerFires ==
    \E i \in 1..Len(pending) :
        /\ pending[i].kind = "submit"
        /\ \A j \in 1..(i - 1) : pending[j].kind # "submit"
        /\ pending' = Remove(pending, i)

\* a timer that was set fires: no suspended handleFormSubmit waits forever
SpecAppFair == SpecApp /\ WF_pending(SubmitTimerFires)

\* the body of the loop in generate() on any seed: the mood's palette, then
\* the adjustment of the application type
InitSeed ==
    /\ preferences = NoPreferences
    /\ result = NoResult
    /\ input \in {i \in SeedInputs : i.seedHue \in SeedsOf(i.appType)}
    /\ output = <<>>
    /\ pc = "call"
    /\ AppIdle

PaletteOfSeed ==
    /\ pc = "call"
    /\ \E palette \in {moodPalette(input.colorMood, input.seedHue)} :
          output' = [palette |-> palette, adjusted |-> typeAdjusted(input.appType, palette)]
    /\ pc' = "return"
    /\ UNCHANGED <<preferences, result, input>>
    /\ UNCHANGED appVars

NextSeed == PaletteOfSeed

SpecSeed == InitSeed /\ [][NextSeed]_vars

\* _generateBaseHue(appType, purpose), one character of the purpose at a time
InitHash ==
    /\ preferences = NoPreferences
    /\ result = NoResult
    /\ input \in [appType : AppTypes, purpose : Purposes]
    /\ output = [hash |-> 0, i |-> 0]
    /\ pc = "hash"
    /\ AppIdle

\* one iteration of the loop over purpose.charCodeAt(i)
HashChar ==
    /\ pc = "hash"
    /\ output.i < Len(input.purpose)
    /\ output' = [hash |-> hashStep(output.hash, input.purpose[output.i + 1]),
                  i |-> output.i + 1]
    /\ UNCHANGED <<preferences, result, input, pc>>
    /\ UNCHANGED appVars

\* the rest of _generateBaseHue, after the loop
ReturnBaseHue ==
    /\ pc = "hash"
    /\ output.i = Len(input.purpose)
    /\ output' = [hash |-> output.hash, i |-> output.i,
                  baseHue |-> baseHueOf(input.appType, output.hash)]
    /\ pc' = "return"
    /\ UNCHANGED <<preferences, result, input>>
    /\ UNCHANGED appVars

NextHash == HashChar \/ ReturnBaseHue

SpecHash == InitHash /\ [][NextHash]_vars

\* adjustHue, adjustSaturation or adjustLightness on any colour and amount;
\* from is the h, s, l handed to hslToRgb
InitAdjust ==
    /\ preferences = NoPreferences
    /\ result = NoResult
    /\ input \in AdjustInputs
    /\ output = <<>>
    /\ pc = "call"
    /\ AppIdle

AdjustHue ==
    /\ pc = "call"
    /\ LET rgb == hexToRgb(input.hex)
           hsl == rgbToHsl(rgb.r, rgb.g, rgb.b)
       IN  output' = [op |-> "adjustHue",
                      from |-> [hsl EXCEPT !.h = adjustedHue(hsl.h, input.delta)],
                      hex |-> adjustHue(input.hex, input.delta)]
    /\ pc' = "return"
    /\ UNCHANGED <<preferences, result, input>>
    /\ UNCHANGED appVars

AdjustSaturation ==
    /\ pc = "call"
    /\ LET rgb == hexToRgb(input.hex)
           hsl == rgbToHsl(rgb.r, rgb.g, rgb.b)
       IN  output' = [op |-> "adjustSaturation",
                      from |-> [hsl EXCEPT !.s = adjustedChannel(hsl.s, input.delta)],
                      hex |-> adjustSaturation(input.hex, input.delta)]
    /\ pc' = "return"
    /\ UNCHANGED <<preferences, result, input>>
    /\ UNCHANGED appVars

AdjustLightness ==
    /\ pc = "call"
    /\ LET rgb == hexToRgb(input.hex)
           hsl == rgbToHsl(rgb.r, rgb.g, rgb.b)
       IN  output' = [op |-> "adjustLightness",
                      from |-> [hsl EXCEPT !.l = adjustedChannel(hsl.l, input.delta)],
                      hex |-> adjustLightness(input.hex, input.delta)]
    /\ pc' = "return"
    /\ UNCHANGED <<preferences, result, input>>
    /\ UNCHANGED appVars

NextAdjust == AdjustHue \/ AdjustSaturation \/ AdjustLightness

SpecAdjust == InitAdjust /\ [][NextAdjust]_vars

\* JSON.parse(exportAsJSON(palette)) on any palette
InitExport ==
    /\ preferences = NoPreferences
    /\ result = NoResult
    /\ input \in ExportPalettes
    /\ output = <<>>
    /\ pc = "call"
    /\ AppIdle

ExportAndParse ==
    /\ pc = "call"
    /\ \E jsonOutput \in {exportAsJSON(input)} :
          output' = [jsonOutput |-> jsonOutput, parsed |-> JSONparse(jsonOutput)]
    /\ pc' = "return"
    /\ UNCHANGED <<preferences, result, input>>
    /\ UNCHANGED appVars

NextExport == ExportAndParse

SpecExport == InitExport /\ [][NextExport]_vars

(***************************************************************************)
(* Properties of generate().                                               *)
(***************************************************************************)
Returned == pc = "return" /\ ~result.threw

PaletteIndices == 1..Len(result.palettes)

\* '#' followed by exactly six uppercase hexadecimal digits
UpperHexDigits == {"0", "1", "2", "3", "4", "5", "6", "7", "8", "9",
                   "A", "B", "C", "D", "E", "F"}
IsUpperHex(hex) ==
    /\ Len(hex) = 7
    /\ hex[1] = "#"
    /\ \A k \in 2..7 : hex[k] \in UpperHexDigits

\* h, s, l measured back from a hex with hexToRgb and rgbToHsl
MeasuredHsl(hex) ==
    LET rgb == hexToRgb(hex) IN rgbToHsl(rgb.r, rgb.g, rgb.b)

ShapeOK(palette) ==
    /\ DOMAIN palette.colors = Roles
    /\ \A role \in DOMAIN palette.colors :
          /\ palette.colors[role].role = role
          /\ Len(palette.colors[role].hex) > 0
          /\ palette.colors[role].role # ""
          /\ palette.colors[role].usage # ""

\* C1: for every Preferences value with non-empty appType, purpose and
\* colorMood, generate() returns exactly 3 palettes, each with exactly the 6
\* role keys, every colour tagged with its own key and with non-empty hex,
\* role and usage.
C1_PaletteShape ==
    (pc = "return" /\ preferences.appType # "" /\ Len(preferences.purpose) > 0
        /\ preferences.colorMood # "")
    => /\ ~result.threw
       /\ Len(result.palettes) = 3
       /\ \A i \in PaletteIndices : ShapeOK(result.palettes[i])

\* C2: the 3 palettes returned by one generate() call have pairwise distinct
\* primary.hex values, for every appType, purpose and colorMood.
C2_DistinctPrimaries ==
    Returned =>
        \A i, j \in PaletteIndices :
            i # j => result.palettes[i].colors.primary.hex
                     # result.palettes[j].colors.primary.hex

\* a warm call for a known application type gave two palettes the same primary
C2_Witness ==
    /\ Returned
    /\ preferences.appType = "web-dashboard"
    /\ preferences.colorMood = "warm"
    /\ Len(result.palettes) = 3
    /\ result.palettes[1].colors.primary.hex = result.palettes[2].colors.primary.hex

\* C3: every hex of every colour of every returned palette is '#' followed by
\* exactly six uppercase hexadecimal digits, also after the professional or
\* playful adjustment.
C3_HexWellFormed ==
    Returned =>
        \A i \in PaletteIndices : \A role \in Roles :
            IsUpperHex(result.palettes[i].colors[role].hex)

\* an adjusted palette came back and one of its hex values has a letter digit
C3_Witness ==
    /\ Returned
    /\ preferences.appType \in {"professional", "web-dashboard", "saas",
                                "playful", "mobile-app"}
    /\ \E i \in PaletteIndices : \E role \in Roles : \E k \in 2..7 :
          result.palettes[i].colors[role].hex[k] \in {"A", "B", "C", "D", "E", "F"}

\* C5: for the seven known application types, every purpose and the four
\* known moods, each of the 3 returned palettes has a non-empty accessiblePairs
\* list, whose entries pair two of the palette's own colours.
C5_AccessiblePairExists ==
    (pc = "return" /\ preferences.appType \in KnownAppTypes
        /\ preferences.colorMood \in KnownMoods)
    => /\ ~result.threw
       /\ Len(result.palettes) = 3
       /\ \A i \in PaletteIndices :
             LET palette == result.palettes[i]
             IN  /\ Len(palette.accessiblePairs) > 0
                 /\ \E k \in 1..Len(palette.accessiblePairs) :
                    \E a, b \in Roles :
                       /\ a # b
                       /\ palette.accessiblePairs[k].text = palette.colors[a].hex
                       /\ palette.accessiblePairs[k].background = palette.colors[b].hex
                       /\ palette.accessiblePairs[k].ratio >= 450

\* a dark palette of a known application type came back
C5_Witness ==
    /\ Returned
    /\ preferences.appType \in KnownAppTypes
    /\ preferences.colorMood = "dark"
    /\ Len(result.palettes) = 3

\* what the fallback policy promises for an unknown application type: base hue
\* 200, the purpose's variation, the 120 degree fan-out, no adjustment
FallbackSeeds(purpose) ==
    LET base == (200 + absRem(hashOf(purpose), 60) - 30 + 360) % 360
    IN  <<base, (base + 120) % 360, (base + 240) % 360>>

\* C6: generate() never fails for an unrecognized colorMood or appType: an
\* unknown colorMood gives the colours and names of the cool policy, an unknown
\* appType gives base hue 200 and no type adjustment.
C6_TotalWithFallback ==
    pc = "return" =>
        /\ ~result.threw
        /\ Len(result.palettes) = 3
        /\ preferences.colorMood \notin KnownMoods =>
              LET cool == generate([preferences EXCEPT !.colorMood = "cool"])
              IN  \A i \in PaletteIndices :
                     /\ result.palettes[i].colors = cool.palettes[i].colors
                     /\ result.palettes[i].name = cool.palettes[i].name
        /\ preferences.appType \notin KnownAppTypes =>
              \A i \in PaletteIndices :
                 result.palettes[i].colors =
                    moodPalette(preferences.colorMood,
                                FallbackSeeds(preferences.purpose)[i]).colors

ChromaticAndNeutral == {"primary", "secondary", "accent", "background", "surface"}

\* C8: for colorMood 'pastel', every appType and purpose, primary, secondary,
\* accent, background and surface of all 3 palettes measure saturation < 50
\* and lightness > 70.
C8_PastelMood ==
    (pc = "return" /\ preferences.colorMood = "pastel")
    => /\ ~result.threw
       /\ Len(result.palettes) = 3
       /\ \A i \in PaletteIndices : \A role \in ChromaticAndNeutral :
             LET hsl == MeasuredHsl(result.palettes[i].colors[role].hex)
             IN  hsl.s < 50 /\ hsl.l > 70

\* a pastel palette that went through the playful adjustment came back
C8_Witness ==
    /\ Returned
    /\ preferences.colorMood = "pastel"
    /\ preferences.appType \in {"playful", "mobile-app"}
    /\ Len(result.palettes) = 3
    /\ MeasuredHsl(result.palettes[1].colors.accent.hex).s > 0

\* C9: for colorMood 'dark', every appType and purpose, background and surface
\* of all 3 palettes measure lightness < 20 and primary, secondary and accent
\* measure lightness > 50.
C9_DarkMood ==
    (pc = "return" /\ preferences.colorMood = "dark")
    => /\ ~result.threw
       /\ Len(result.palettes) = 3
       /\ \A i \in PaletteIndices :
             /\ \A role \in {"background", "surface"} :
                   MeasuredHsl(result.palettes[i].colors[role].hex).l < 20
             /\ \A role \in {"primary", "secondary", "accent"} :
                   MeasuredHsl(result.palettes[i].colors[role].hex).l > 50

\* a dark palette that went through the professional adjustment came back
C9_Witness ==
    /\ Returned
    /\ preferences.colorMood = "dark"
    /\ preferences.appType \in {"professional", "web-dashboard", "saas"}
    /\ Len(result.palettes) = 3
    /\ MeasuredHsl(result.palettes[1].colors.primary.hex).s > 0

(***************************************************************************)
(* Properties of findAccessiblePairs() and of the hex round trip.          *)
(***************************************************************************)
\* the ordered pairs of distinct roles of a palette whose contrast ratio,
\* computed from their two hex values, is at least 4.5
PairsAtLeastAA(palette) ==
    {p \in Roles \X Roles :
        /\ p[1] # p[2]
        /\ LET ratio == calculateContrastRatio(palette.colors[p[1]].hex,
                                               palette.colors[p[2]].hex)
           IN  2 * ratio.num >= 9 * ratio.den}

\* C4: every entry returned by findAccessiblePairs reports a rounded ratio of
\* at least 4.5 and pairs two colours whose contrast ratio is at least 4.5;
\* there are exactly as many entries as ordered role pairs reaching 4.5, so no
\* pair below 4.5 is listed.
C4_PairsMeetAA ==
    pc = "return" =>
        /\ \A k \in 1..Len(output) :
              /\ output[k].ratio >= 450
              /\ \E p \in PairsAtLeastAA(input) :
                    /\ output[k].text = input.colors[p[1]].hex
                    /\ output[k].background = input.colors[p[2]].hex
        /\ Len(output) = Cardinality(PairsAtLeastAA(input))

\* a palette with #777777 text on a #FFFFFF background (4.48, left out) and a
\* #767676 primary (4.54 on white, listed)
C4_Witness ==
    /\ pc = "return"
    /\ input.colors.text.hex = <<"#", "7", "7", "7", "7", "7", "7">>
    /\ input.colors.background.hex = <<"#", "F", "F", "F", "F", "F", "F">>
    /\ input.colors.primary.hex = <<"#", "7", "6", "7", "6", "7", "6">>
    /\ Len(output) > 0
    /\ \E k \in 1..Len(output) : output[k].ratio = 454

\* the uppercase form of one hexadecimal digit
UpperDigit(c) ==
    CASE c = "a" -> "A" [] c = "b" -> "B" [] c = "c" -> "C"
      [] c = "d" -> "D" [] c = "e" -> "E" [] c = "f" -> "F"
      [] OTHER -> c

\* C10: for a well-formed 6-digit hex string, with or without a leading '#',
\* rgbToHex of the channels of hexToRgb is '#' followed by the uppercase form
\* of its six digits.
C10_HexRoundTrip ==
    pc = "return" =>
        LET digits == IF input[1] = "#" THEN Tail(input) ELSE input
        IN  output = <<"#">> \o [k \in 1..6 |-> UpperDigit(digits[k])]

\* a string without '#', with a lowercase digit and a channel below 16
C10_Witness ==
    /\ pc = "return"
    /\ Len(input) = 6
    /\ input[1] = "0"
    /\ input[2] = "f"
    /\ Len(output) = 7

(***************************************************************************)
(* The same properties away from the names Object.prototype lends to every *)
(* lookup table.                                                           *)
(***************************************************************************)
NoInheritedKey ==
    /\ preferences.appType \notin ObjectPrototypeKeys
    /\ preferences.colorMood \notin ObjectPrototypeKeys

\* C1, for appType and colorMood that name no member of Object.prototype:
\* generate() returns 3 palettes of 6 colours keyed and tagged by role, with
\* non-empty hex, role and usage.
C1_PaletteShapeOwnKeys == NoInheritedKey => C1_PaletteShape

\* an unknown mood and an unknown type, neither inherited, gave 3 palettes
C1_Witness ==
    /\ Returned
    /\ preferences.appType = "game"
    /\ preferences.colorMood = "neon"
    /\ Len(preferences.purpose) > 0
    /\ Len(result.palettes) = 3

\* C6, for unknown appType and colorMood that name no member of
\* Object.prototype: generate() returns the cool policy's colours and names,
\* from base hue 200 and without adjustment.
C6_TotalWithFallbackOwnKeys == NoInheritedKey => C6_TotalWithFallback

\* the fallback for an unknown type ran on a purpose with a negative hash
C6_Witness ==
    /\ Returned
    /\ preferences.appType = "game"
    /\ preferences.colorMood \notin KnownMoods
    /\ hashOf(preferences.purpose) < 0
    /\ Len(result.palettes) = 3

\* C8, for appType that names no member of Object.prototype: pastel palettes
\* measure saturation < 50 and lightness > 70 on the five roles.
C8_PastelMoodOwnKeys == NoInheritedKey => C8_PastelMood

\* C9, for appType that names no member of Object.prototype: dark palettes
\* measure lightness < 20 on background and surface, > 50 on the other three.
C9_DarkMoodOwnKeys == NoInheritedKey => C9_DarkMood

(***************************************************************************)
(* Properties of calculateContrastRatio().                                 *)
(***************************************************************************)
Black == <<"#", "0", "0", "0", "0", "0", "0">>
White == <<"#", "F", "F", "F", "F", "F", "F">>

\* C12: calculateContrastRatio(a, b) equals calculateContrastRatio(b, a) for
\* every pair of well-formed hex colours.
C12_ContrastSymmetric ==
    pc = "return" =>
        /\ output.forward.num = output.backward.num
        /\ output.forward.den = output.backward.den

\* the darker colour came first and the ratio is not 1
C12_Witness ==
    /\ pc = "return"
    /\ input[1] = Black
    /\ input[2] # Black
    /\ output.forward.num > output.forward.den

\* C13: calculateContrastRatio is between 1 and 21 inclusive for every pair of
\* well-formed hex colours, 1 for two identical colours and 21 for black
\* against white.
C13_ContrastRange ==
    pc = "return" =>
        /\ output.forward.den > 0
        /\ output.forward.num >= output.forward.den
        /\ (output.forward.num + 20) \div 21 <= output.forward.den
        /\ input[1] = input[2] => output.forward.num = output.forward.den
        /\ (input = <<Black, White>> \/ input = <<White, Black>>) =>
              output.forward.num = 21 * output.forward.den

\* black against white gave 21
C13_Witness ==
    /\ pc = "return"
    /\ input = <<Black, White>>
    /\ output.forward.num = 21 * output.forward.den

(***************************************************************************)
(* Properties of the RGB -> HSL -> RGB round trip.                         *)
(***************************************************************************)
Abs(n) == IF n < 0 THEN 0 - n ELSE n

\* the largest difference of a channel between the triple and its round trip
RoundTripLoss ==
    Max3(Abs(output.r - input[1]), Abs(output.g - input[2]), Abs(output.b - input[3]))

C26_HslRanges ==
    pc = "hsl" =>
        /\ output.h \in 0..359
        /\ output.s \in 0..100
        /\ output.l \in 0..100
        /\ (input[1] = input[2] /\ input[2] = input[3]) => (output.h = 0 /\ output.s = 0)

\* C26 with the hue allowed to reach 360: h in [0,360], s and l in [0,100],
\* and h = 0 and s = 0 for r = g = b.
C26_HslRangesHueUpTo360 ==
    pc = "hsl" =>
        /\ output.h \in 0..360
        /\ output.s \in 0..100
        /\ output.l \in 0..100
        /\ (input[1] = input[2] /\ input[2] = input[3]) => (output.h = 0 /\ output.s = 0)

\* a red with a trace of blue measures the hue 360
C26_Witness ==
    /\ pc = "hsl"
    /\ input = <<255, 0, 2>>
    /\ output = [h |-> 360, s |-> 100, l |-> 50]

(***************************************************************************)
(* Properties of form submission.                                          *)
(***************************************************************************)
\* a string with nothing in it but spaces
Blank(str) == \A k \in 1..Len(str) : str[k] = 32

\* the controls of a form that a submission must report as missing
MissingFields(form) ==
    {f \in Fields :
        \/ f = "appType" /\ form.appType = ""
        \/ f = "purpose" /\ Blank(form.purpose)
        \/ f = "colorMood" /\ form.colorMood = ""}

GenerateCalls == {k \in 1..Len(log) : log[k].op = "generate"}

\* C14: in any sequence of submissions generate() is invoked only with form
\* data whose appType and colorMood are non-empty and whose purpose is not
\* blank; a submission with a missing field shows an error for exactly each
\* missing field, starts no work that reaches generate(), and leaves
\* state.preferences and state.palettes unchanged.
C14_ValidatedBeforeGenerate ==
    /\ [](\A k \in GenerateCalls :
            /\ log[k].arg.appType # ""
            /\ log[k].arg.colorMood # ""
            /\ ~Blank(log[k].arg.purpose))
    /\ [][\A form \in Forms :
            (SubmitForm(form) /\ MissingFields(form) # {}) =>
                /\ \A f \in Fields : (dom'.errors[f] # "") <=> (f \in MissingFields(form))
                /\ pending' = pending
                /\ log' = log
                /\ state' = state]_<<vars, appVars>>

\* palettes were generated, then a submission with a blank purpose was refused
C14_Witness ==
    /\ events = 2
    /\ pending = <<>>
    /\ Cardinality(GenerateCalls) = 1
    /\ Len(state.palettes) = 3
    /\ dom.errors["purpose"] # ""
    /\ dom.errors["appType"] = ""

(***************************************************************************)
(* Properties of exportAsJSON().                                           *)
(***************************************************************************)
\* C15: for a palette with the six roles, the parsed output of exportAsJSON
\* has the palette's name and vibe, and its colors entry maps exactly the six
\* roles, each to that role's hex.
C15_JsonRoundTrip ==
    pc = "return" =>
        /\ DOMAIN output.parsed = {KeyChars.name, KeyChars.vibe, KeyChars.colors}
        /\ output.parsed[KeyChars.name] = input.name
        /\ output.parsed[KeyChars.vibe] = input.vibe
        /\ DOMAIN output.parsed[KeyChars.colors] = {KeyChars[role] : role \in Roles}
        /\ \A role \in Roles :
              output.parsed[KeyChars.colors][KeyChars[role]] = input.colors[role].hex

\* a name with a quote and a backslash in it was exported and parsed
C15_Witness ==
    /\ pc = "return"
    /\ input.name = <<"\\", "\"">>
    /\ input.vibe = <<"a">>
    /\ Len(output.jsonOutput) > 0
    /\ output.parsed[KeyChars.name] = input.name

(***************************************************************************)
(* Properties of the clipboard handlers.                                   *)
(***************************************************************************)
\* the clicks that landed on a HEX code button
HexClicks == {k \in 1..Len(log) : log[k].op = "click" /\ log[k].arg.hexButton}

\* the calls of op made while handling an event
CallsOf(event, op) == {k \in 1..Len(log) : log[k].event = event /\ log[k].op = op}

\* no handler of the event is suspended
Settled(event) == \A i \in 1..Len(pending) : pending[i].event # event

WriteResolved(event) == \E k \in CallsOf(event, "writeText") : log[k].arg.resolved
WriteRejected(event) == \E k \in CallsOf(event, "writeText") : ~log[k].arg.resolved
ExecSucceeded(event) == \E k \in CallsOf(event, "execCommand") : log[k].arg.result = "true"

\* the writes to the clipboard that succeeded
Copies ==
    {k \in 1..Len(log) :
        \/ log[k].op = "writeText" /\ log[k].arg.resolved
        \/ log[k].op = "execCommand" /\ log[k].arg.result = "true"}

ProfessionalTypes == {"professional", "web-dashboard", "saas"}
PlayfulTypes == {"playful", "mobile-app"}
Chromatic == {"primary", "secondary", "accent"}
Neutral == {"background", "surface", "text"}

\* C17: the adjustment for the professional-class types changes nothing but
\* the saturation of primary, secondary and accent: for every mood and seed
\* the hex of background, surface and text is the same before and after, and
\* so are the measured hue and lightness of primary, secondary and accent.
C17_ProfessionalChangesSaturationOnly ==
    (pc = "return" /\ input.appType \in ProfessionalTypes) =>
        /\ \A role \in Neutral :
              output.adjusted.colors[role].hex = output.palette.colors[role].hex
        /\ \A role \in Chromatic :
              LET before == MeasuredHsl(output.palette.colors[role].hex)
                  after == MeasuredHsl(output.adjusted.colors[role].hex)
              IN  after.h = before.h /\ after.l = before.l

\* C17, for the warm and cool moods: the professional adjustment leaves the
\* hex of background, surface and text and the measured hue and lightness of
\* primary, secondary and accent as they were.
C17_ProfessionalChangesSaturationOnlyWarmCool ==
    input.colorMood \in {"warm", "cool"} => C17_ProfessionalChangesSaturationOnly

\* a warm palette whose primary saturation of 70 was capped at 58
C17_Witness ==
    /\ pc = "return"
    /\ input = [colorMood |-> "warm", appType |-> "saas", seedHue |-> 75]
    /\ MeasuredHsl(output.palette.colors["primary"].hex).s = 70
    /\ MeasuredHsl(output.adjusted.colors["primary"].hex).s = 58

TextConstant ==
    [warm |-> <<"#", "1", "A", "1", "A", "1", "A">>,
     cool |-> <<"#", "1", "A", "1", "A", "1", "A">>,
     pastel |-> <<"#", "2", "A", "2", "A", "2", "A">>,
     dark |-> <<"#", "F", "5", "F", "5", "F", "5">>]

\* C18: the text colour of every palette generate() returns is the constant
\* of the mood, '#1A1A1A' for warm and cool, '#2A2A2A' for pastel, '#F5F5F5'
\* for dark, whatever the appType and the seed, the adjusted types included.
C18_TextIsMoodConstant ==
    (Returned /\ preferences.colorMood \in KnownMoods) =>
        \A i \in PaletteIndices :
            result.palettes[i].colors["text"].hex = TextConstant[preferences.colorMood]

\* C18, away from pastel palettes that went through an adjustment: the text
\* colour is the constant of the mood.
C18_TextIsMoodConstantUnlessAdjustedPastel ==
    ~(/\ preferences.colorMood = "pastel"
      /\ preferences.appType \in ProfessionalTypes \cup PlayfulTypes)
    => C18_TextIsMoodConstant

\* a dark palette that went through the playful adjustment kept '#F5F5F5'
C18_Witness ==
    /\ Returned
    /\ preferences.colorMood = "dark"
    /\ preferences.appType = "playful"
    /\ Len(result.palettes) = 3
    /\ result.palettes[1].colors["text"].hex = TextConstant["dark"]

\* the seed folded into the warm range
FoldedWarm(seedHue) ==
    IF seedHue <= 60 \/ seedHue >= 330 THEN seedHue ELSE seedHue % 60

\* C19: for every integer seed in [0,360) generateWarmPalette builds primary,
\* secondary and accent from hues in [0,60] or [330,360): the folded seed,
\* (hue+20) mod 60 and (hue+40) mod 60; and for the warm mood with any appType
\* the hue measured back from the final hex of these roles is in [0,90] or
\* [330,360].
C19_WarmHues ==
    (pc = "return" /\ input.colorMood = "warm") =>
        /\ input.seedHue \in SeedHues =>
              LET hues == warmHues(input.seedHue)
              IN  /\ \A role \in Chromatic :
                        \/ 0 <= hues[role] /\ hues[role] <= 60
                        \/ 330 <= hues[role] /\ hues[role] < 360
                  /\ hues.primary = FoldedWarm(input.seedHue)
                  /\ hues.secondary = (hues.primary + 20) % 60
                  /\ hues.accent = (hues.primary + 40) % 60
                  /\ output.palette.colors["primary"].hex = hslToHex(hues.primary, 70, 55)
                  /\ output.palette.colors["secondary"].hex = hslToHex(hues.secondary, 65, 60)
                  /\ output.palette.colors["accent"].hex = hslToHex(hues.accent, 80, 50)
        /\ \A role \in Chromatic :
              LET h == MeasuredHsl(output.adjusted.colors[role].hex).h
              IN  (0 <= h /\ h <= 90) \/ (330 <= h /\ h <= 360)

\* seed 75, which only the second fold brings into the range, with the
\* professional adjustment applied
C19_Witness ==
    /\ pc = "return"
    /\ input = [colorMood |-> "warm", appType |-> "saas", seedHue |-> 75]
    /\ warmHues(75) = [primary |-> 15, secondary |-> 35, accent |-> 55]
    /\ MeasuredHsl(output.adjusted.colors["primary"].hex).h = 15

\* the seed folded into the cool range
FoldedCool(seedHue) ==
    IF seedHue >= 150 /\ seedHue <= 330 THEN seedHue ELSE 150 + (seedHue % 180)

\* C20: for every integer seed in [0,360) generateCoolPalette builds primary,
\* secondary and accent from hues in [150,330]: the seed folded into the
\* range, then +40 and +80 wrapped within it; and for the cool mood with any
\* appType the hue measured back from the final hex of these roles is in
\* [150,330].
C20_CoolHues ==
    (pc = "return" /\ input.colorMood = "cool") =>
        /\ input.seedHue \in SeedHues =>
              LET hues == coolHues(input.seedHue)
              IN  /\ \A role \in Chromatic : 150 <= hues[role] /\ hues[role] <= 330
                  /\ hues.primary = FoldedCool(input.seedHue)
                  /\ hues.secondary = 150 + ((hues.primary - 150 + 40) % 180)
                  /\ hues.accent = 150 + ((hues.primary - 150 + 80) % 180)
                  /\ output.palette.colors["primary"].hex = hslToHex(hues.primary, 65, 50)
                  /\ output.palette.colors["secondary"].hex = hslToHex(hues.secondary, 60, 55)
                  /\ output.palette.colors["accent"].hex = hslToHex(hues.accent, 75, 45)
        /\ \A role \in Chromatic :
              LET h == MeasuredHsl(output.adjusted.colors[role].hex).h
              IN  150 <= h /\ h <= 330

\* C20, for appType that names no member of Object.prototype: cool palettes
\* are built from hues in [150,330] and measure hues in [150,330].
C20_CoolHuesOwnKeys == input.appType \notin ObjectPrototypeKeys => C20_CoolHues

\* seed 10, folded to 160, with the playful adjustment applied
C20_Witness ==
    /\ pc = "return"
    /\ input = [colorMood |-> "cool", appType |-> "mobile-app", seedHue |-> 10]
    /\ coolHues(10) = [primary |-> 160, secondary |-> 200, accent |-> 240]
    /\ MeasuredHsl(output.adjusted.colors["accent"].hex).h = 240

\* C21: for appType playful or mobile-app and mood warm, cool or dark, the
\* accent of each returned palette measures saturation >= 65 and lightness
\* >= 52; for mood pastel the accent, of saturation below 50 before the
\* adjustment, measures the saturation and lightness it had before.
C21_PlayfulAccent ==
    (Returned /\ preferences.appType \in PlayfulTypes) =>
        \A i \in PaletteIndices :
            LET accent == MeasuredHsl(result.palettes[i].colors["accent"].hex)
                baseHue == _generateBaseHue(preferences.appType, preferences.purpose)
                seedHue == (baseHue + 120 * (i - 1)) % 360
                before == MeasuredHsl(generatePastelPalette(seedHue).colors["accent"].hex)
            IN  /\ preferences.colorMood \in {"warm", "cool", "dark"} =>
                      accent.s >= 65 /\ accent.l >= 52
                /\ preferences.colorMood = "pastel" =>
                      before.s < 50 /\ accent.s = before.s /\ accent.l = before.l

\* a cool palette for a mobile app, whose accent of lightness 45 was raised
C21_Witness ==
    /\ Returned
    /\ preferences.appType = "mobile-app"
    /\ preferences.colorMood = "cool"
    /\ Len(result.palettes) = 3
    /\ MeasuredHsl(result.palettes[1].colors["accent"].hex).l = 52
    /\ MeasuredHsl(result.palettes[1].colors["accent"].hex).s = 75

\* C22: for appType professional, web-dashboard or saas, every mood and every
\* purpose, primary, secondary and accent of each returned palette measure
\* saturation <= 58, so at least 2 of the 3 measure saturation < 60.
C22_ProfessionalSaturation ==
    (Returned /\ preferences.appType \in ProfessionalTypes) =>
        \A i \in PaletteIndices :
            /\ \A role \in Chromatic :
                  MeasuredHsl(result.palettes[i].colors[role].hex).s <= 58
            /\ Cardinality({role \in Chromatic :
                  MeasuredHsl(result.palettes[i].colors[role].hex).s < 60}) >= 2

\* a dark palette for a dashboard, whose accent of saturation 80 was capped
C22_Witness ==
    /\ Returned
    /\ preferences.appType = "web-dashboard"
    /\ preferences.colorMood = "dark"
    /\ Len(result.palettes) = 3
    /\ \A role \in Chromatic : MeasuredHsl(result.palettes[2].colors[role].hex).s = 58

(***************************************************************************)
(* Properties of _generateBaseHue().                                       *)
(***************************************************************************)
\* a rem n in JavaScript: the remainder has the sign of the dividend
JsRem(a, n) == IF a >= 0 THEN a % n ELSE 0 - ((0 - a) % n)

\* the table entry of the application type, 200 when it has none
TypeHue(appType) ==
    IF appType \in DOMAIN typeHueMap THEN typeHueMap[appType] ELSE 200

\* C23: for every appType and every purpose, _generateBaseHue returns an
\* integer in [0,360) equal to (typeHue + variation + 360) mod 360, typeHue
\* being the table entry of appType, 200 when absent, and variation =
\* |hash rem 60| - 30, which lies in -30..29 also for a negative hash.
C23_BaseHue ==
    pc = "return" =>
        LET variation == Abs(JsRem(output.hash, 60)) - 30
        IN  /\ variation \in (0 - 30)..29
            /\ output.baseHue \in 0..359
            /\ output.baseHue = (TypeHue(input.appType) + variation + 360) % 360

\* C23, for appType that names no member of Object.prototype: the base hue is
\* (typeHue + variation + 360) mod 360, in [0,360).
C23_BaseHueOwnKeys == input.appType \notin ObjectPrototypeKeys => C23_BaseHue

\* an unknown type and a purpose of negative hash gave a hue from base 200
C23_Witness ==
    /\ pc = "return"
    /\ input.appType = "game"
    /\ output.hash < 0
    /\ JsRem(output.hash, 60) < 0 - 30
    /\ output.baseHue > 200

\* 31 * previous + charCode wrapped to signed 32-bit two's complement, on
\* 16-bit halves
Wrapped31(previous, charCode) ==
    LET low == 31 * (previous % 65536) + charCode
        high == 31 * (previous \div 65536) + (low \div 65536)
    IN  (((high + 32768) % 65536) - 32768) * 65536 + (low % 65536)

\* C24: while the purpose is hashed, after each character the accumulator is
\* 31 * previous + charCode wrapped to signed 32-bit two's complement, so it
\* stays within [-2^31, 2^31 - 1] for any length, and the empty purpose
\* hashes to 0.
C24_HashWraps ==
    /\ [](/\ output.i = 0 => output.hash = 0
          /\ output.hash >= 0 - 2147483647 - 1
          /\ output.hash <= 2147483647
          /\ (pc = "return" /\ Len(input.purpose) = 0) => output.hash = 0)
    /\ [][output'.i = output.i + 1 =>
            output'.hash = Wrapped31(output.hash, input.purpose[output'.i])]_vars

\* six characters were hashed and the accumulator wrapped to a negative value
C24_Witness ==
    /\ pc = "hash"
    /\ output.i = 6
    /\ output.hash < 0
    /\ input.purpose[1] = 117

(***************************************************************************)
(* Properties of findAccessiblePairs().                                    *)
(***************************************************************************)
\* the ordered pairs of distinct roles, in the order of iteration: text role
\* first, then background role
Candidates ==
    [k \in 1..30 |->
        LET i == ((k - 1) \div 5) + 1
            t == ((k - 1) % 5) + 1
            j == IF t < i THEN t ELSE t + 1
        IN  <<RoleOrder[i], RoleOrder[j]>>]

\* C25: findAccessiblePairs examines every ordered pair of distinct roles
\* once, 30 candidates, none pairing a role with itself, and returns in the
\* order of iteration exactly those whose ratio is at least 4.5; so the entry
\* (text A, background B) is returned iff (text B, background A) is, with the
\* same ratio, and entries of roles that share a hex are not merged.
C25_OrderedPairsInOrder ==
    pc = "return" =>
        LET AtLeastAA(p) == p \in PairsAtLeastAA(input)
            expected == SelectSeq(Candidates, AtLeastAA)
        IN  /\ {Candidates[k] : k \in 1..30} = {p \in Roles \X Roles : p[1] # p[2]}
            /\ Len(output) = Len(expected)
            /\ \A k \in 1..Len(output) :
                  /\ output[k].text = input.colors[expected[k][1]].hex
                  /\ output[k].background = input.colors[expected[k][2]].hex
                  /\ \E m \in 1..Len(output) :
                        /\ expected[m] = <<expected[k][2], expected[k][1]>>
                        /\ output[m].text = output[k].background
                        /\ output[m].background = output[k].text
                        /\ output[m].ratio = output[k].ratio

\* primary and secondary share #767676 and every other role is white: the
\* same entry is returned for both, in both directions
C25_Witness ==
    /\ pc = "return"
    /\ input.colors.primary.hex = <<"#", "7", "6", "7", "6", "7", "6">>
    /\ input.colors.secondary.hex = <<"#", "7", "6", "7", "6", "7", "6">>
    /\ \A role \in Roles \ {"primary", "secondary"} :
          input.colors[role].hex = <<"#", "F", "F", "F", "F", "F", "F">>
    /\ Len(output) = 16
    /\ output[1] = output[5]
    /\ output[9].text = output[1].background

(***************************************************************************)
(* Properties of adjustHue(), adjustSaturation() and adjustLightness().    *)
(***************************************************************************)
\* C27: for every well-formed hex and every signed integer amount, adjustHue
\* converts back from the hue (h + amount) mod 360 taken in [0,360), and
\* adjustSaturation and adjustLightness from the sum clamped to [0,100], the
\* other two channels as measured; each returns a well-formed uppercase hex
\* and leaves its input as it was.
C27_AdjustWrapsAndClamps ==
    /\ [](pc = "return" =>
            LET hsl == MeasuredHsl(input.hex)
                sum == (IF output.op = "adjustSaturation" THEN hsl.s ELSE hsl.l) + input.delta
                clamped == IF sum < 0 THEN 0 ELSE IF sum > 100 THEN 100 ELSE sum
                rgb == hslToRgb(output.from.h, output.from.s, output.from.l)
            IN  /\ output.op = "adjustHue" =>
                      /\ output.from.h \in 0..359
                      /\ output.from.h = (hsl.h + input.delta) % 360
                      /\ output.from.s = hsl.s /\ output.from.l = hsl.l
                /\ output.op = "adjustSaturation" =>
                      /\ output.from.s = clamped
                      /\ output.from.h = hsl.h /\ output.from.l = hsl.l
                /\ output.op = "adjustLightness" =>
                      /\ output.from.l = clamped
                      /\ output.from.h = hsl.h /\ output.from.s = hsl.s
                /\ output.hex = rgbToHex(rgb.r, rgb.g, rgb.b)
                /\ IsUpperHex(output.hex))
    /\ [][input' = input]_vars

\* a hue of 220 moved by -400 degrees was converted back from hue 180
C27_Witness ==
    /\ pc = "return"
    /\ input = [hex |-> <<"#", "3", "3", "6", "6", "c", "c">>, delta |-> 0 - 400]
    /\ output.op = "adjustHue"
    /\ output.from = [h |-> 180, s |-> 60, l |-> 50]
    /\ output.hex = <<"#", "3", "3", "C", "C", "C", "C">>

(***************************************************************************)
(* Properties of the loading state and of the application state.           *)
(***************************************************************************)
\* the submit events whose handler is suspended at its await
PendingSubmits ==
    {pending[i].event : i \in {k \in 1..Len(pending) : pending[k].kind = "submit"}}

\* C28: every form submission that passed validation eventually leaves the
\* loading indicator hidden and the submit button enabled, whether generation
\* and rendering returned or threw.
C28_LoadingEventuallyHidden ==
    \A event \in 1..MaxEvents :
        (event \in PendingSubmits) ~>
            (/\ event \notin PendingSubmits
             /\ dom.loadingHidden
             /\ ~dom.submitDisabled
             /\ dom.submitText = "Generate Palettes")

\* a submission whose generation threw has left the indicator hidden, the
\* button enabled and the error in the container
C28_Witness ==
    /\ pending = <<>>
    /\ \E k \in GenerateCalls : log[k].arg.colorMood = "constructor"
    /\ Len(dom.container) = 1
    /\ dom.container[1].kind = "generation-error"
    /\ dom.loadingHidden
    /\ ~dom.submitDisabled

\* the loading indicator is shown and the submit button is disabled
LoadingShown == ~dom.loadingHidden /\ dom.submitDisabled

\* C29: whenever a validated submission is still waiting for its palettes,
\* between its showLoading and its own hideLoading, the loading indicator is
\* visible and the submit button is disabled, also when a second submission
\* started before the first had finished.
C29_LoadingWhileWaiting == PendingSubmits # {} => LoadingShown

\* C29, as far as it holds: a waiting submission sees the loading indicator
\* and the disabled button from its showLoading on through every step in
\* which no handler, its own or an earlier one, resumes and hides them.
C29_LoadingUntilAnyResume ==
    [][(/\ PendingSubmits \subseteq PendingSubmits'
        /\ PendingSubmits' # {}
        /\ PendingSubmits # {} => LoadingShown)
       => LoadingShown']_<<vars, appVars>>

\* two submissions wait at once and the indicator is shown
C29_Witness ==
    /\ Cardinality(PendingSubmits) = 2
    /\ GenerateCalls = {}
    /\ LoadingShown

\* the last call of generate in the log, and whether the handler that made it
\* went on to show the palettes
LastGenerateCall == CHOOSE k \in GenerateCalls : \A j \in GenerateCalls : j <= k

LastGenerateSucceeded ==
    /\ LastGenerateCall < Len(log)
    /\ log[LastGenerateCall + 1].op = "showToast"
    /\ log[LastGenerateCall + 1].arg = <<"Successfully generated 3 color palettes!">>

\* C30: after any sequence of valid and invalid submissions, overlapping or
\* not, once no submission is pending and the last validated one generated
\* successfully, state.palettes is generate(state.preferences) and the
\* palettes container holds exactly those 3 palettes.
C30_PalettesOfLastSubmission ==
    (PendingSubmits = {} /\ GenerateCalls # {} /\ LastGenerateSucceeded) =>
        \E generated \in {generate(state.preferences)} :
            /\ ~generated.threw
            /\ log[LastGenerateCall].arg = state.preferences
            /\ state.palettes = generated.palettes
            /\ Len(state.palettes) = 3
            /\ dom.container =
                   [i \in 1..3 |-> [kind |-> "palette-card", palette |-> generated.palettes[i]]]

\* two submissions with different preferences have generated different
\* palettes, and the page holds those of the second
C30_Witness ==
    /\ PendingSubmits = {}
    /\ Cardinality(GenerateCalls) = 2
    /\ LastGenerateSucceeded
    /\ \E k \in GenerateCalls :
          /\ k < LastGenerateCall
          /\ log[k + 1].arg = <<"Successfully generated 3 color palettes!">>
          /\ log[k].arg # state.preferences
          /\ generate(log[k].arg).palettes # state.palettes
    /\ Len(dom.container) = 3
    /\ \A i \in 1..3 : dom.container[i].palette = state.palettes[i]

====
